---- MODULE Spec2Model ----
(***************************************************************************)
(* A model of the KuzuDB graph store of langchaingo (package kuzu):        *)
(* the logical transaction handle (transaction.go), RunInTransaction, and  *)
(* the graph document import pipeline (import / schema / store files),     *)
(* table creation by concurrent goroutines, schema introspection, and the  *)
(* deduplication helpers.                                                  *)
(* The query engine is a black box: every engine call has an outcome the   *)
(* model draws nondeterministically.                                       *)
(***************************************************************************)
EXTENDS Integers, Sequences, FiniteSets, TLC

(***************************************************************************)
(* Bounds of the model                                                     *)
(***************************************************************************)
\* longest operation log of one transaction handle
MaxOps == 2

(***************************************************************************)
(* State                                                                   *)
(***************************************************************************)
VARIABLES
    connected,     \* Kuzu.connection # nil /\ Kuzu.database # nil
    ctxCancelled,  \* tx.ctx (and the caller's context it derives from) is Done
    txState,       \* Transaction.state
    operations,    \* Transaction.operations
    engineLog,     \* statements that reached the engine connection, in order
    last,          \* the last call made and how it returned
    rit,           \* position inside RunInTransaction
    fnRet,         \* what the inner function of RunInTransaction returned
    ritResult      \* what RunInTransaction returned

VARIABLES
    nodeTables,    \* Kuzu.nodeTables: node types cached as created
    relTables,     \* Kuzu.relTables: relationship keys cached as created
    engine,        \* the database behind the connection: tables, nodes, edges
    before,        \* the database when the last import call started
    call,          \* the last import call: its input and what it returned
    viaBatch,      \* the database a document leaves when written by processBatch
    viaIndividual  \* ... and when written by processIndividually

VARIABLES
    tablesMux,        \* Kuzu.tablesMux: the goroutine holding it, 0 when free
    callers,          \* the goroutines inside a table-creation function
    executed,         \* for every table name, how often its CREATE has succeeded
    structuredSchema, \* Kuzu.structuredSchema: the snapshot of the last refresh
    schemaCache,      \* Kuzu.schemaCache: the description of the last refresh
    observed          \* how the engine answers catalog queries, the texts
                      \* GetSchema returned, and the fingerprints
                      \* GetSchemaVersion returned since the last refresh

VARIABLES
    input,         \* the argument of a pure function under study
    output         \* what the function returned for it

txVars == <<connected, ctxCancelled, txState, operations, engineLog, last,
            rit, fnRet, ritResult>>

\* TransactionState and its String() names
TransactionIdle == "idle"
TransactionActive == "active"
TransactionCommitted == "committed"
TransactionRolledBack == "rolled_back"
TransactionFailed == "failed"

TransactionStates ==
    {TransactionIdle, TransactionActive, TransactionCommitted,
     TransactionRolledBack, TransactionFailed}

\* query texts a caller passes to Transaction.Query
Stmts == {"RETURN 1", "MATCH (n) RETURN n"}

\* the transaction control statements the handle sends by itself
BeginStmt(readOnly) ==
    IF readOnly THEN "-- BEGIN READ ONLY TRANSACTION" ELSE "-- BEGIN TRANSACTION"
CommitStmt == "-- COMMIT TRANSACTION"
RollbackStmt == "-- ROLLBACK TRANSACTION"

\* what the engine call of one Kuzu.Query does: succeeds, fails, or is still
\* in flight when the context is cancelled
Outcomes == {"ok", "fail", "cancel"}

(***************************************************************************)
(* Kuzu.Query: returns before the engine is contacted when the store is    *)
(* not connected or the context is already cancelled; otherwise the        *)
(* statement reaches the engine.                                           *)
(***************************************************************************)
KQuery(conn, cancelled, outcome) ==
    IF ~conn THEN [contacted |-> FALSE, err |-> TRUE, cancelled |-> cancelled]
    ELSE IF cancelled THEN [contacted |-> FALSE, err |-> TRUE, cancelled |-> TRUE]
    ELSE [contacted |-> TRUE,
          err |-> outcome # "ok",
          cancelled |-> outcome = "cancel"]

\* the engine log after a Kuzu.Query call that returned r
Sent(log, r, stmt, via, ops) ==
    IF r.contacted
    THEN Append(log, [stmt |-> stmt, via |-> via, at |-> Len(ops)])
    ELSE log

IsActiveOrFailed(state) == state \in {"active", "failed"}

\* Transaction.IsActive
IsActive(state) == state = TransactionActive

CanRollbackOnlyActive(state) == state = TransactionActive

CanRollbackAnyState(state) == state # TransactionIdle

\* Transaction.Rollback's state check
CanRollback(state) == state \in {TransactionActive, TransactionFailed}

CloseRollsBackOnlyActive(state) == state = TransactionActive

\* Transaction.Close rolls back in exactly these states
CloseRollsBack(state) == state \in {TransactionActive, TransactionFailed}

StateAfterQueryStaysActive(err) == TransactionActive

\* Transaction.Query: the state after the engine call returned
StateAfterQuery(err) == IF err THEN TransactionFailed ELSE TransactionActive

LogQueryOnlyFirst(ops, q) == IF ops = <<>> THEN Append(ops, q) ELSE ops

\* Transaction.Query: tx.operations = append(tx.operations, query)
LogQuery(ops, q) == Append(ops, q)

\* Transaction.Query: the operation log the engine call is made under; the call
\* follows the append
OpsAtExecute(opsBefore, opsAfter) == opsAfter

\* variables of the import pipeline, left alone by the transaction handle
importVars == <<nodeTables, relTables, engine, before, call, viaBatch, viaIndividual>>

\* variables of table creation and schema introspection
schemaVars == <<tablesMux, callers, executed, structuredSchema, schemaCache, observed>>

\* variables of the pure helpers
pureVars == <<input, output>>

\* an empty database
EmptyEngine == [ntabs |-> {}, rtabs |-> {}, nodes |-> {}, edges |-> {}]

\* no import call made yet
NoCall ==
    [api |-> "none", docs |-> <<>>, includeSource |-> FALSE, err |-> FALSE,
     sent |-> 0, again |-> FALSE, prevOk |-> FALSE, tx |-> TransactionIdle,
     cause |-> "none", cache |-> [node |-> {}, rel |-> {}]]

\* a path that has not been taken
NotWritten == [written |-> FALSE, err |-> FALSE, eng |-> EmptyEngine]

\* NewKuzu: empty caches over a fresh database
ImportInit ==
    /\ nodeTables = {}
    /\ relTables = {}
    /\ engine = EmptyEngine
    /\ before = EmptyEngine
    /\ call = NoCall
    /\ viaBatch = NotWritten
    /\ viaIndividual = NotWritten

\* no goroutine is creating a table, nothing has been introspected
NoSchema == [keys |-> {}, node_types |-> <<>>, relationship_types |-> <<>>,
             total_tables |-> 0]

\* goroutines calling into the store at once
MaxGoroutines == 2

Goroutines == 1..MaxGoroutines

\* how the engine answers the catalog queries (it answers them all); no
\* schema refreshed, no schema or version read
AnswersAll == [catalogFails |-> FALSE, columns |-> TRUE, infoFails |-> {}]
NoObservation ==
    [catalog |-> AnswersAll, refreshed |-> FALSE, err |-> FALSE,
     texts |-> <<>>, versions |-> <<>>]

\* a goroutine outside the table-creation functions
Idle == [pc |-> "idle", item |-> [k |-> "none"], sent |-> FALSE]

SchemaInit ==
    /\ tablesMux = 0
    /\ callers = [g \in Goroutines |-> Idle]
    /\ executed = [once |-> {}, again |-> {}]
    /\ structuredSchema = NoSchema
    /\ schemaCache = <<>>
    /\ observed = NoObservation

\* no pure helper under study
NoInput == [kind |-> "none", list |-> <<>>]
NoOutput == [stage |-> 0, once |-> <<>>, twice |-> <<>>]

PureInit ==
    /\ input = NoInput
    /\ output = NoOutput

Call(op, err) == [op |-> op, err |-> err]

(***************************************************************************)
(* Operations of a transaction handle, as functions of the handle          *)
(*   h = [state, ops, cancelled, log]                                      *)
(* (Transaction.state, Transaction.operations, tx.ctx being Done, and the  *)
(* statements that reached the engine). Each returns the handle after the  *)
(* call and whether the call returned an error.                            *)
(***************************************************************************)
Ret(h, err) == [h |-> h, err |-> err]

\* Kuzu.BeginTransaction on a connected store
BeginF(conn, cancelled, log, readOnly, outcome) ==
    LET r == KQuery(conn, cancelled, outcome) IN
    [state |-> TransactionActive,
     ops |-> <<>>,
     cancelled |-> r.cancelled,
     log |-> Sent(log, r, BeginStmt(readOnly), "begin", <<>>)]

\* Transaction.Query
QueryF(h, conn, q, outcome) ==
    IF ~IsActive(h.state) THEN Ret(h, TRUE)
    ELSE IF h.cancelled
    THEN Ret([h EXCEPT !.state = TransactionFailed], TRUE)
    ELSE LET r == KQuery(conn, h.cancelled, outcome)
             logged == LogQuery(h.ops, q) IN
         Ret([state |-> StateAfterQuery(r.err),
              ops |-> logged,
              cancelled |-> r.cancelled,
              log |-> Sent(h.log, r, q, "query", OpsAtExecute(h.ops, logged))],
             r.err)

\* Transaction.Commit
CommitF(h, conn, outcome) ==
    IF ~IsActive(h.state) THEN Ret(h, TRUE)
    ELSE LET r == KQuery(conn, h.cancelled, outcome) IN
         Ret([state |-> TransactionCommitted,
              ops |-> h.ops,
              cancelled |-> TRUE,
              log |-> Sent(h.log, r, CommitStmt, "commit", h.ops)],
             FALSE)

\* Transaction.Rollback
RollbackF(h, conn, outcome) ==
    IF ~CanRollback(h.state) THEN Ret(h, TRUE)
    ELSE LET r == KQuery(conn, h.cancelled, outcome) IN
         Ret([state |-> TransactionRolledBack,
              ops |-> h.ops,
              cancelled |-> TRUE,
              log |-> Sent(h.log, r, RollbackStmt, "rollback", h.ops)],
             FALSE)

\* Transaction.Close
CloseF(h, conn, outcome) ==
    IF CloseRollsBack(h.state) THEN RollbackF(h, conn, outcome)
    ELSE IF h.state \in {TransactionCommitted, TransactionRolledBack}
    THEN Ret(h, FALSE)
    ELSE Ret([h EXCEPT !.cancelled = TRUE], FALSE)

\* the handle held in the state variables
Handle ==
    [state |-> txState, ops |-> operations, cancelled |-> ctxCancelled,
     log |-> engineLog]

\* the handle after a call becomes the state; the call is recorded
Returned(op, r) ==
    /\ txState' = r.h.state
    /\ operations' = r.h.ops
    /\ ctxCancelled' = r.h.cancelled
    /\ engineLog' = r.h.log
    /\ last' = Call(op, r.err)

BeginEffect(readOnly, outcome) ==
    Returned("Begin",
             Ret(BeginF(connected, ctxCancelled, engineLog, readOnly, outcome), FALSE))

QueryEffect(q, outcome) == Returned("Query", QueryF(Handle, connected, q, outcome))

CommitEffect(outcome) == Returned("Commit", CommitF(Handle, connected, outcome))

RollbackEffect(outcome) == Returned("Rollback", RollbackF(Handle, connected, outcome))

CloseEffect(outcome) == Returned("Close", CloseF(Handle, connected, outcome))

\* a caller holds the handle: directly, or as the inner function of
\* RunInTransaction
Holds == txState # TransactionIdle /\ rit \in {"none", "infn"}

TxBegin ==
    /\ txState = TransactionIdle /\ rit = "none" /\ connected
    /\ \E readOnly \in BOOLEAN, o \in Outcomes : BeginEffect(readOnly, o)
    /\ UNCHANGED <<connected, rit, fnRet, ritResult>>
    /\ UNCHANGED <<importVars, schemaVars, pureVars>>

TxQuery ==
    /\ Holds
    /\ IsActive(txState) /\ ~ctxCancelled => Len(operations) < MaxOps
    /\ \E q \in Stmts, o \in Outcomes : QueryEffect(q, o)
    /\ UNCHANGED <<connected, rit, fnRet, ritResult>>
    /\ UNCHANGED <<importVars, schemaVars, pureVars>>

TxCommit ==
    /\ Holds
    /\ \E o \in Outcomes : CommitEffect(o)
    /\ UNCHANGED <<connected, rit, fnRet, ritResult>>
    /\ UNCHANGED <<importVars, schemaVars, pureVars>>

TxRollback ==
    /\ Holds
    /\ \E o \in Outcomes : RollbackEffect(o)
    /\ UNCHANGED <<connected, rit, fnRet, ritResult>>
    /\ UNCHANGED <<importVars, schemaVars, pureVars>>

TxClose ==
    /\ Holds
    /\ \E o \in Outcomes : CloseEffect(o)
    /\ UNCHANGED <<connected, rit, fnRet, ritResult>>
    /\ UNCHANGED <<importVars, schemaVars, pureVars>>

\* the caller's context is cancelled
CancelCtx ==
    /\ ~ctxCancelled /\ rit # "done"
    /\ ctxCancelled' = TRUE
    /\ last' = Call("Cancel", FALSE)
    /\ UNCHANGED <<connected, txState, operations, engineLog, rit, fnRet, ritResult>>
    /\ UNCHANGED <<importVars, schemaVars, pureVars>>

\* Kuzu.Close: the store drops its connection and database
KuzuClose ==
    /\ connected /\ rit # "done"
    /\ connected' = FALSE
    /\ last' = Call("KuzuClose", FALSE)
    /\ UNCHANGED <<ctxCancelled, txState, operations, engineLog, rit, fnRet, ritResult>>
    /\ UNCHANGED <<importVars, schemaVars, pureVars>>

(***************************************************************************)
(* Kuzu.RunInTransaction, one action per call it makes                     *)
(***************************************************************************)
\* BeginTransaction, then fn is entered; or BeginTransaction fails
RunBegin ==
    /\ txState = TransactionIdle /\ rit = "none"
    /\ IF connected
       THEN /\ \E o \in Outcomes : BeginEffect(FALSE, o)
            /\ rit' = "infn"
            /\ UNCHANGED ritResult
       ELSE /\ rit' = "done"
            /\ ritResult' = "begin_failed"
            /\ last' = Call("Begin", TRUE)
            /\ UNCHANGED <<txState, operations, engineLog, ctxCancelled>>
    /\ UNCHANGED <<connected, fnRet>>
    /\ UNCHANGED <<importVars, schemaVars, pureVars>>

\* fn returns nil or an error
FnReturn ==
    /\ rit = "infn"
    /\ \E e \in {"nil", "err"} :
         /\ fnRet' = e
         /\ rit' = IF e = "err" THEN "rollback" ELSE "commit"
    /\ last' = Call("FnReturn", fnRet' = "err")
    /\ UNCHANGED <<connected, ctxCancelled, txState, operations, engineLog, ritResult>>
    /\ UNCHANGED <<importVars, schemaVars, pureVars>>

\* fn failed: tx.Rollback()
RunRollback ==
    /\ rit = "rollback"
    /\ \E o \in Outcomes : RollbackEffect(o)
    /\ ritResult' = IF last'.err THEN "fn_error_and_rollback_error" ELSE "fn_error"
    /\ rit' = "defer"
    /\ UNCHANGED <<connected, fnRet>>
    /\ UNCHANGED <<importVars, schemaVars, pureVars>>

\* fn succeeded: tx.Commit()
RunCommit ==
    /\ rit = "commit"
    /\ \E o \in Outcomes : CommitEffect(o)
    /\ ritResult' = IF last'.err THEN "commit_failed" ELSE "nil"
    /\ rit' = "defer"
    /\ UNCHANGED <<connected, fnRet>>
    /\ UNCHANGED <<importVars, schemaVars, pureVars>>

\* defer tx.Close()
RunDeferClose ==
    /\ rit = "defer"
    /\ \E o \in Outcomes : CloseEffect(o)
    /\ rit' = "done"
    /\ UNCHANGED <<connected, fnRet, ritResult>>
    /\ UNCHANGED <<importVars, schemaVars, pureVars>>

TxInit ==
    /\ connected = TRUE
    /\ ctxCancelled = FALSE
    /\ txState = TransactionIdle
    /\ operations = <<>>
    /\ engineLog = <<>>
    /\ last = Call("New", FALSE)
    /\ rit = "none"
    /\ fnRet = "none"
    /\ ritResult = "none"

vars == <<txVars, importVars, schemaVars, pureVars>>

Init == TxInit /\ ImportInit /\ SchemaInit /\ PureInit

Next ==
    \/ TxBegin
    \/ TxQuery
    \/ TxCommit
    \/ TxRollback
    \/ TxClose
    \/ CancelCtx
    \/ KuzuClose
    \/ RunBegin
    \/ FnReturn
    \/ RunRollback
    \/ RunCommit
    \/ RunDeferClose

Spec == Init /\ [][Next]_vars

(***************************************************************************)
(* Helpers of the properties                                               *)
(***************************************************************************)
RECURSIVE IsSubSeq(_, _)
\* s is a subsequence of t (same order, gaps allowed)
IsSubSeq(s, t) ==
    IF s = <<>> THEN TRUE
    ELSE IF t = <<>> THEN FALSE
    ELSE IF Head(s) = Head(t) THEN IsSubSeq(Tail(s), Tail(t))
    ELSE IsSubSeq(s, Tail(t))

RECURSIVE StmtsVia(_, _)
\* the statements of an engine log sent by one of the senders in `vias`
StmtsVia(log, vias) ==
    IF log = <<>> THEN <<>>
    ELSE IF Head(log).via \in vias
         THEN <<Head(log).stmt>> \o StmtsVia(Tail(log), vias)
         ELSE StmtsVia(Tail(log), vias)

Terminal == {TransactionCommitted, TransactionRolledBack}

(***************************************************************************)
(* Transaction handle: C1 .. C6                                            *)
(***************************************************************************)
\* C1: the state of a handle changes only along Idle->Active (Begin),
\* Active->Committed (Commit), Active->RolledBack (Rollback or Close),
\* Active->Failed (a Query that returns an error), Failed->RolledBack
\* (Rollback or Close); Committed and RolledBack are never left.
C1_StateEdges ==
    [][ \/ txState' = txState
        \/ /\ txState = TransactionIdle /\ txState' = TransactionActive
           /\ last'.op = "Begin"
        \/ /\ txState = TransactionActive /\ txState' = TransactionCommitted
           /\ last'.op = "Commit"
        \/ /\ txState = TransactionActive /\ txState' = TransactionRolledBack
           /\ last'.op \in {"Rollback", "Close"}
        \/ /\ txState = TransactionActive /\ txState' = TransactionFailed
           /\ last'.op = "Query" /\ last'.err
        \/ /\ txState = TransactionFailed /\ txState' = TransactionRolledBack
           /\ last'.op \in {"Rollback", "Close"} ]_vars

\* a handle that logged queries was closed and is RolledBack
C1_Witness ==
    /\ txState = TransactionRolledBack
    /\ last = Call("Close", FALSE)
    /\ Len(operations) = MaxOps

\* C2: Commit on a Committed, RolledBack or Failed handle, and Rollback on a
\* Committed or RolledBack handle, return an error and change neither the
\* state nor the operation log.
C2_RejectedCalls ==
    [][ ( \/ /\ last'.op = "Commit"
             /\ txState \in Terminal \cup {TransactionFailed}
          \/ /\ last'.op = "Rollback"
             /\ txState \in Terminal )
        => /\ last'.err
           /\ txState' = txState
           /\ operations' = operations
           /\ engineLog' = engineLog ]_vars

\* a Commit was refused on a Committed handle
C2_Witness ==
    /\ txState = TransactionCommitted
    /\ last = Call("Commit", TRUE)

\* C3 as stated: whatever fn did before returning an error, RunInTransaction
\* returns an error carrying fn's error and the handle ends RolledBack.
C3_Original ==
    (rit = "done" /\ fnRet = "err")
    => /\ ritResult \in {"fn_error", "fn_error_and_rollback_error"}
       /\ txState = TransactionRolledBack

\* C3 amended: RunInTransaction returns an error carrying fn's error and the
\* handle ends RolledBack, unless fn itself committed the handle: then the
\* rollback is refused, the error names both, and the handle stays Committed.
\* It never ends Failed or Active.
C3_Amended ==
    (rit = "done" /\ fnRet = "err")
    => /\ ritResult \in {"fn_error", "fn_error_and_rollback_error"}
       /\ \/ txState = TransactionRolledBack
          \/ /\ txState = TransactionCommitted
             /\ ritResult = "fn_error_and_rollback_error"

\* fn issued queries, returned an error, and the handle was rolled back
C3_Witness ==
    /\ rit = "done" /\ fnRet = "err"
    /\ ritResult = "fn_error"
    /\ txState = TransactionRolledBack
    /\ operations # <<>>

\* C4: when RunInTransaction returns after a handle was created, the handle
\* is Committed or RolledBack, and nil is returned only if it is Committed.
C4_AlwaysClosed ==
    (rit = "done" /\ ritResult # "begin_failed")
    => /\ txState \in Terminal
       /\ ritResult = "nil" => txState = TransactionCommitted

\* fn returned nil, the commit was refused and the handle was rolled back
C4_Witness ==
    /\ rit = "done" /\ fnRet = "nil"
    /\ ritResult = "commit_failed"
    /\ txState = TransactionRolledBack
    /\ last = Call("Close", FALSE)

\* C5: a Query on a handle reaches the engine only if the scope is not
\* cancelled, is in the operation log when it is executed, and moves the
\* handle to Failed when it fails; a Query on a Failed handle is rejected
\* without contacting the engine and without changing the state or the log.
C5_QueryProtocol ==
    [][ last'.op = "Query"
        => /\ ~IsActive(txState)
              => /\ last'.err
                 /\ UNCHANGED <<txState, operations, engineLog>>
           /\ ctxCancelled => engineLog' = engineLog
           /\ engineLog' # engineLog
              => LET e == engineLog'[Len(engineLog')] IN
                 /\ e.via = "query"
                 /\ e.at \in 1..Len(operations')
                 /\ operations'[e.at] = e.stmt
           /\ (txState = TransactionActive /\ last'.err)
              => txState' = TransactionFailed ]_vars

\* a query reached the engine, failed, and left the handle Failed
C5_Witness ==
    /\ txState = TransactionFailed
    /\ last = Call("Query", TRUE)
    /\ engineLog # <<>>
    /\ engineLog[Len(engineLog)].via = "query"

\* C6 as stated: every statement that reached the engine for the transaction
\* is in GetOperations(), in issue order.
C6_Original == IsSubSeq(StmtsVia(engineLog, {"begin", "query", "commit", "rollback"}), operations)

\* C6 amended: every statement that reached the engine through
\* Transaction.Query (the failing one included) is in GetOperations(), in
\* issue order; the control statements BeginTransaction, Commit and Rollback
\* send are not logged.
C6_Amended == IsSubSeq(StmtsVia(engineLog, {"query"}), operations)

\* two queries reached the engine, the second failed
C6_Witness ==
    /\ Len(StmtsVia(engineLog, {"query"})) = MaxOps
    /\ txState = TransactionFailed

(***************************************************************************)
(* Graph documents.  Type labels are strings of characters (sequences of   *)
(* one-character strings), so that sanitizeIdentifier and the "%s_%s_%s"   *)
(* keys are computed character by character, as the code computes them.    *)
(* A property map is a set of [k, v] pairs with distinct keys.             *)
(***************************************************************************)
Letters ==
    {"a", "b", "c", "d", "e", "f", "g", "h", "i", "j", "k", "l", "m",
     "n", "o", "p", "q", "r", "s", "t", "u", "v", "w", "x", "y", "z",
     "A", "B", "C", "D", "E", "F", "G", "H", "I", "J", "K", "L", "M",
     "N", "O", "P", "Q", "R", "S", "T", "U", "V", "W", "X", "Y", "Z"}

\* isLetter
isLetter(b) == b \in Letters

\* sanitizeIdentifier
sanitizeIdentifier(identifier) ==
    LET sanitized ==
            [i \in 1..Len(identifier) |->
                IF identifier[i] \in {" ", "-"} THEN "_" ELSE identifier[i]]
    IN  IF Len(sanitized) > 0 /\ ~isLetter(sanitized[1]) /\ sanitized[1] # "_"
        THEN <<"_">> \o sanitized
        ELSE sanitized

\* fmt.Sprintf("%s_%s_%s", sourceType, relType, targetType)
PatternKey(sourceType, relType, targetType) ==
    sourceType \o <<"_">> \o relType \o <<"_">> \o targetType

ChunkLabel == <<"C", "h", "u", "n", "k">>
MentionsLabel == <<"M", "E", "N", "T", "I", "O", "N", "S">>
NodeLabel == <<"N", "o", "d", "e">>

\* property values: an int, a plain string, or a string holding a JSON
\* object with one member
IntV(n) == [t |-> "int", n |-> n]
StrV(x) == [t |-> "string", s |-> x]
JsonV(k, n) == [t |-> "json", k |-> k, n |-> n]

\* fmt.Sprintf("%v", value) of the value as the caller gave it
GoText(v) ==
    CASE v.t = "int" -> ToString(v.n)
      [] v.t = "string" -> v.s
      [] v.t = "json" -> "{\"" \o v.k \o "\":" \o ToString(v.n) \o "}"

\* fmt.Sprintf("%v", c) of c = ConvertGoValueToKuzu(ConvertProperties(value)):
\* a JSON object string is decoded and converted as a map
ConvertedText(v) ==
    CASE v.t = "int" -> ToString(v.n)
      [] v.t = "string" -> v.s
      [] v.t = "json" -> "map[" \o v.k \o ":" \o ToString(v.n) \o "]"

\* the text of a property value: addNode and addRelationship convert the
\* value first, addNodeInTransaction and addRelationshipInTransaction do not
PropText(v, inTx) == IF inTx THEN GoText(v) ELSE ConvertedText(v)

\* addNode / addNodeInTransaction: the prop_keys and prop_vals parameters,
\* without the reserved keys
NodeMapParam(props, inTx) ==
    {[k |-> p.k, v |-> StrV(PropText(p.v, inTx))] :
        p \in {q \in props : q.k \notin {"id", "type"}}}

\* addRelationship / addRelationshipInTransaction: prop_keys and prop_vals
RelMapParam(props, inTx) == {[k |-> p.k, v |-> StrV(PropText(p.v, inTx))] : p \in props}

\* validateGraphDocument
validateGraphDocument(doc) ==
    /\ \A i \in 1..Len(doc.nodes) :
         doc.nodes[i].id # "" /\ doc.nodes[i].type # <<>>
    /\ \A i \in 1..Len(doc.rels) :
         /\ doc.rels[i].type # <<>>
         /\ doc.rels[i].source.id # ""
         /\ doc.rels[i].target.id # ""

(***************************************************************************)
(* The engine behind the connection.  It is a black box to the store; the  *)
(* model gives each statement text the store sends the meaning Cypher      *)
(* gives it: CREATE ... IF NOT EXISTS skips an existing table name, MERGE   *)
(* matches or creates, a MATCH without a match yields no row, and a        *)
(* statement over a table that does not exist fails.  Statements take      *)
(* effect at once: the engine is never told to open a transaction.         *)
(***************************************************************************)
\* CREATE instead of MERGE: every row becomes a new node
InsertNodes(nodes, table, rows, setProps) ==
    nodes \cup {[table |-> table, id |-> rows[i].id, type |-> rows[i].type,
                 props |-> rows[i].props, copy |-> Cardinality(nodes) + i] :
                    i \in 1..Len(rows)}

\* UNWIND rows: MERGE (n:table {id: row.id}) SET n.type = row.type
\*              [SET n.properties = row.props]
\* The rows are merged in order: a node is left as the last row with its id
\* sets it, with the properties it had before when none are set
MergeNodes(nodes, table, rows, setProps) ==
    LET ids == {rows[i].id : i \in 1..Len(rows)}
        old == {n \in nodes : n.table = table /\ n.id \in ids}
        merged(id) ==
            LET was == {n \in old : n.id = id}
                kept == IF was = {} THEN {} ELSE (CHOOSE n \in was : TRUE).props
                row == rows[CHOOSE i \in 1..Len(rows) :
                              /\ rows[i].id = id
                              /\ \A j \in 1..Len(rows) : rows[j].id = id => j <= i]
            IN [table |-> table, id |-> id, type |-> row.type,
                props |-> IF setProps THEN row.props ELSE kept]
    IN (nodes \ old) \cup {merged(id) : id \in ids}

RECURSIVE MergeEdges(_, _, _, _, _)
\* UNWIND rows: MATCH (s:from {id: row.source_id}) MATCH (t:to {id: row.target_id})
\*              MERGE (s)-[r:rel]->(t) [SET r.properties = row.props]
MergeEdges(eng, stmt, rows, setProps, rel) ==
    IF rows = <<>> THEN eng.edges
    ELSE LET row == Head(rows)
             matched ==
                 /\ \E n \in eng.nodes : n.table = stmt.from /\ n.id = row.source_id
                 /\ \E n \in eng.nodes : n.table = stmt.to /\ n.id = row.target_id
             old == {e \in eng.edges :
                        /\ e.rel = rel
                        /\ e.from = stmt.from /\ e.source_id = row.source_id
                        /\ e.to = stmt.to /\ e.target_id = row.target_id}
             kept == IF old = {} THEN {} ELSE (CHOOSE e \in old : TRUE).props
             new == [rel |-> rel,
                     from |-> stmt.from, source_id |-> row.source_id,
                     to |-> stmt.to, target_id |-> row.target_id,
                     props |-> IF setProps THEN row.props ELSE kept]
             edges == IF matched THEN (eng.edges \ old) \cup {new} ELSE eng.edges
         IN MergeEdges([eng EXCEPT !.edges = edges], stmt, Tail(rows), setProps, rel)

Done(eng) == [eng |-> eng, err |-> FALSE]
Failed(eng) == [eng |-> eng, err |-> TRUE]

\* the engine executes one statement
Exec(eng, stmt) ==
    CASE stmt.kind = "create_node_table" ->
            Done([eng EXCEPT !.ntabs = @ \cup {stmt.table}])
      [] stmt.kind = "create_rel_table" ->
            IF \E t \in eng.rtabs : t.name = stmt.name THEN Done(eng)
            ELSE IF stmt.from \notin eng.ntabs \/ stmt.to \notin eng.ntabs
            THEN Failed(eng)
            ELSE Done([eng EXCEPT !.rtabs = @ \cup
                         {[name |-> stmt.name, from |-> stmt.from, to |-> stmt.to]}])
      [] stmt.kind = "merge_node" ->
            IF stmt.table \notin eng.ntabs THEN Failed(eng)
            ELSE Done([eng EXCEPT !.nodes =
                         MergeNodes(@, stmt.table, stmt.rows, stmt.setProps)])
      [] stmt.kind = "merge_rel" ->
            IF [name |-> stmt.name, from |-> stmt.from, to |-> stmt.to] \notin eng.rtabs
            THEN Failed(eng)
            ELSE Done([eng EXCEPT !.edges =
                         MergeEdges(eng, stmt, stmt.rows, stmt.setProps, stmt.name)])
      [] stmt.kind = "merge_mentions" ->
            IF [name |-> MentionsLabel, from |-> ChunkLabel, to |-> stmt.to]
                   \notin eng.rtabs
            THEN Failed(eng)
            ELSE Done([eng EXCEPT !.edges =
                         MergeEdges(eng, stmt, stmt.rows, FALSE, MentionsLabel)])

(***************************************************************************)
(* The statements the import pipeline sends                                *)
(***************************************************************************)
\* processGraphDocument: a document with more nodes or relationships than
\* this is written by the batched path
BatchThreshold == 10

\* addGraphDocumentsInTransaction: documents are processed this many at a time
DocBatchSize == 10

\* batchInsertNodesByType / batchInsertRelationships: rows per statement
ChunkSize == 100

RECURSIVE Flatten(_)
Flatten(ss) == IF ss = <<>> THEN <<>> ELSE Head(ss) \o Flatten(Tail(ss))

\* the distinct elements of s that are not in acc, each at its first
\* occurrence, appended to acc
Distinct(s, acc) ==
    LET firsts == {i \in 1..Len(s) :
                      /\ \A j \in 1..(i - 1) : s[j] # s[i]
                      /\ \A k \in 1..Len(acc) : acc[k] # s[i]}
    IN acc \o [k \in 1..Cardinality(firsts) |->
                 s[CHOOSE i \in firsts : Cardinality({j \in firsts : j <= i}) = k]]

RECURSIVE Chunks(_, _)
\* for i := 0; i < len(s); i += size { ... s[i:end] ... }
Chunks(s, size) ==
    IF s = <<>> THEN <<>>
    ELSE IF Len(s) <= size THEN <<s>>
    ELSE <<SubSeq(s, 1, size)>> \o Chunks(SubSeq(s, size + 1, Len(s)), size)

RelKey(rel) == PatternKey(rel.source.type, rel.type, rel.target.type)

\* the keys of a Go map built by a loop over s (Go leaves the iteration
\* order of a map open; the model takes the keys in order of first insertion)
NodeTypesOf(nodes) == Distinct([i \in 1..Len(nodes) |-> nodes[i].type], <<>>)
RelKeysOf(rels) == Distinct([i \in 1..Len(rels) |-> RelKey(rels[i])], <<>>)

\* relationshipTypes[key] = {...}: a later relationship with the same key
\* overwrites the entry
LastWithKey(rels, key) ==
    LET idx == {i \in 1..Len(rels) : RelKey(rels[i]) = key}
    IN rels[CHOOSE i \in idx : \A j \in idx : j <= i]

\* createNodeTable
NodeTableItem(nodeType) ==
    [k |-> "ddl", cache |-> "node", key |-> nodeType, swallow |-> FALSE,
     stmt |-> [kind |-> "create_node_table", table |-> sanitizeIdentifier(nodeType)]]

\* createChunkNodeTable
ChunkTableItem ==
    [k |-> "ddl", cache |-> "node", key |-> ChunkLabel, swallow |-> FALSE,
     stmt |-> [kind |-> "create_node_table", table |-> ChunkLabel]]

\* createRelationshipTable
RelTableItem(relType, sourceType, targetType) ==
    [k |-> "ddl", cache |-> "rel",
     key |-> PatternKey(sourceType, relType, targetType), swallow |-> FALSE,
     stmt |-> [kind |-> "create_rel_table",
               name |-> sanitizeIdentifier(relType),
               from |-> sanitizeIdentifier(sourceType),
               to |-> sanitizeIdentifier(targetType)]]

\* createMentionsRelationshipTable: FROM Chunk TO Node; a failure is ignored
MentionsTableItem ==
    [k |-> "ddl", cache |-> "rel", key |-> MentionsLabel, swallow |-> TRUE,
     stmt |-> [kind |-> "create_rel_table", name |-> MentionsLabel,
               from |-> ChunkLabel, to |-> NodeLabel]]

\* the table creations for a list of nodes and a list of relationships
TableItems(nodes, rels) ==
    LET types == NodeTypesOf(nodes)
        keys == RelKeysOf(rels)
    IN  [i \in 1..Len(types) |-> NodeTableItem(types[i])]
        \o <<ChunkTableItem>>
        \o [i \in 1..Len(keys) |->
               LET r == LastWithKey(rels, keys[i])
               IN RelTableItem(r.type, r.source.type, r.target.type)]
        \o <<MentionsTableItem>>

\* ensureTablesExist
ensureTablesExist(doc) == TableItems(doc.nodes, doc.rels)

\* ensureTablesForBatch, with the types processDocumentBatchInTransaction
\* collects across the documents
ensureTablesForBatch(docs) ==
    TableItems(Flatten([i \in 1..Len(docs) |-> docs[i].nodes]),
               Flatten([i \in 1..Len(docs) |-> docs[i].rels]))

DataItem(stmt) == [k |-> "data", stmt |-> stmt]

\* addNode / addNodeInTransaction
addNode(node, inTx) ==
    DataItem([kind |-> "merge_node", table |-> sanitizeIdentifier(node.type),
              setProps |-> TRUE,
              rows |-> <<[id |-> node.id, type |-> node.type,
                          props |-> NodeMapParam(node.props, inTx)]>>])

\* addRelationship / addRelationshipInTransaction
addRelationship(rel, inTx) ==
    DataItem([kind |-> "merge_rel", name |-> sanitizeIdentifier(rel.type),
              from |-> sanitizeIdentifier(rel.source.type),
              to |-> sanitizeIdentifier(rel.target.type),
              setProps |-> TRUE,
              rows |-> <<[source_id |-> rel.source.id, target_id |-> rel.target.id,
                          props |-> RelMapParam(rel.props, inTx)]>>])

\* processIndividually / processIndividuallyInTransaction
processIndividually(doc, inTx) ==
    [i \in 1..Len(doc.nodes) |-> addNode(doc.nodes[i], inTx)]
    \o [i \in 1..Len(doc.rels) |-> addRelationship(doc.rels[i], inTx)]

\* insertNodeBatch / insertNodeBatchInTransaction: properties are set only
\* when the first node of the batch has some, and are passed as given
insertNodeBatchSetsProps(nodes) == nodes[1].props # {}

insertNodeBatch(nodeType, nodes) ==
    DataItem([kind |-> "merge_node", table |-> sanitizeIdentifier(nodeType),
              setProps |-> insertNodeBatchSetsProps(nodes),
              rows |-> [i \in 1..Len(nodes) |->
                          [id |-> nodes[i].id, type |-> nodes[i].type,
                           props |-> nodes[i].props]]])

\* batchInsertNodesByType
batchInsertNodesByType(nodeType, nodes) ==
    LET cs == Chunks(nodes, ChunkSize)
    IN [i \in 1..Len(cs) |-> insertNodeBatch(nodeType, cs[i])]

\* generateDocumentID: "doc_" and a hash of the content; the content stands
\* for its hash
generateDocumentID(content) == "doc_" \o content

\* batchLinkNodesToSource / batchCreateMentionsRelationships
batchLinkNodesToSource(doc) ==
    IF doc.content = "" THEN <<>>
    ELSE LET types == NodeTypesOf(doc.nodes)
         IN [i \in 1..Len(types) |->
               LET ns == SelectSeq(doc.nodes, LAMBDA n : n.type = types[i])
               IN DataItem([kind |-> "merge_mentions",
                            from |-> ChunkLabel,
                            to |-> sanitizeIdentifier(types[i]),
                            rows |-> [j \in 1..Len(ns) |->
                                       [source_id |-> generateDocumentID(doc.content),
                                        target_id |-> ns[j].id]]])]

\* insertRelationshipBatch: one statement per key, with the pattern of the
\* first relationship of the key
insertRelationshipBatch(rels) ==
    LET keys == RelKeysOf(rels)
    IN [i \in 1..Len(keys) |->
          LET g == SelectSeq(rels, LAMBDA r : RelKey(r) = keys[i])
              firstRel == g[1]
          IN DataItem([kind |-> "merge_rel",
                       name |-> sanitizeIdentifier(firstRel.type),
                       from |-> sanitizeIdentifier(firstRel.source.type),
                       to |-> sanitizeIdentifier(firstRel.target.type),
                       setProps |-> firstRel.props # {},
                       rows |-> [j \in 1..Len(g) |->
                                  [source_id |-> g[j].source.id,
                                   target_id |-> g[j].target.id,
                                   props |-> g[j].props]]])]

\* batchInsertRelationships
batchInsertRelationships(rels) ==
    LET cs == Chunks(rels, ChunkSize)
    IN Flatten([i \in 1..Len(cs) |-> insertRelationshipBatch(cs[i])])

\* processBatch (linkSource: the IncludeSource option) and
\* processBatchInTransaction (which never links: linkSource = FALSE)
processBatch(doc, linkSource) ==
    LET types == NodeTypesOf(doc.nodes)
        keys == RelKeysOf(doc.rels)
    IN  Flatten([i \in 1..Len(types) |->
                   batchInsertNodesByType(
                       types[i], SelectSeq(doc.nodes, LAMBDA n : n.type = types[i]))])
        \o (IF linkSource THEN batchLinkNodesToSource(doc) ELSE <<>>)
        \o Flatten([i \in 1..Len(keys) |->
                      batchInsertRelationships(
                          SelectSeq(doc.rels, LAMBDA r : RelKey(r) = keys[i]))])

UsesBatchPathFromThreshold(doc) ==
    Len(doc.nodes) >= BatchThreshold \/ Len(doc.rels) >= BatchThreshold

\* the strategy processGraphDocument and processGraphDocumentInTransaction pick
UsesBatchPath(doc) ==
    Len(doc.nodes) > BatchThreshold \/ Len(doc.rels) > BatchThreshold

ValidateItem(docs) == [k |-> "validate", docs |-> docs]

\* processGraphDocument
processGraphDocument(doc, includeSource) ==
    <<ValidateItem(<<doc>>)>>
    \o ensureTablesExist(doc)
    \o (IF UsesBatchPath(doc)
        THEN processBatch(doc, includeSource)
        ELSE processIndividually(doc, FALSE))

\* AddGraphDocument: each document in turn
AddGraphDocumentPlan(docs, includeSource) ==
    Flatten([i \in 1..Len(docs) |-> processGraphDocument(docs[i], includeSource)])

\* processGraphDocumentInTransaction
processGraphDocumentInTransaction(doc) ==
    ensureTablesExist(doc)
    \o (IF UsesBatchPath(doc)
        THEN processBatch(doc, FALSE)
        ELSE processIndividually(doc, TRUE))

\* processDocumentBatchInTransaction
processDocumentBatchInTransaction(docs) ==
    <<ValidateItem(docs)>>
    \o ensureTablesForBatch(docs)
    \o Flatten([i \in 1..Len(docs) |-> processGraphDocumentInTransaction(docs[i])])

\* addGraphDocumentsInTransaction
addGraphDocumentsInTransaction(docs) ==
    LET batches == Chunks(docs, DocBatchSize)
    IN Flatten([i \in 1..Len(batches) |-> processDocumentBatchInTransaction(batches[i])])

(***************************************************************************)
(* Running the statements of an import call.  st = [cache, eng, h, n, err]:*)
(* the creation cache, the database, the transaction handle (its log holds *)
(* the statements of the call that reached the engine), the number of      *)
(* statements that reached the engine, and whether the call has failed.    *)
(* st.cause tells what made it fail: "validation", "table" (a table could  *)
(* not be created), "write" (the engine refused a data statement),         *)
(* "handle" (the handle refused the query) or "connection".                *)
(* The engine refuses the statement numbered failAt, if there is one.      *)
(***************************************************************************)
\* createNodeTable, createChunkNodeTable, createRelationshipTable,
\* createMentionsRelationshipTable: k.connection.Query on the bare
\* connection, the cache entry set on success
CreateTable(st, item, failAt) ==
    LET cached == IF item.cache = "node" THEN item.key \in st.cache.node
                  ELSE item.key \in st.cache.rel
        x == Exec(st.eng, item.stmt)
        failed == st.n + 1 = failAt \/ x.err
        log == Append(st.h.log,
                      [stmt |-> item.stmt, via |-> "conn", at |-> Len(st.h.ops)])
    IN  IF cached THEN st
        ELSE IF failed
        THEN [st EXCEPT !.n = @ + 1, !.h.log = log, !.err = ~item.swallow,
                        !.cause = IF item.swallow THEN @ ELSE "table"]
        ELSE [st EXCEPT !.n = @ + 1, !.h.log = log, !.eng = x.eng,
                        !.cache = IF item.cache = "node"
                                  THEN [@ EXCEPT !.node = @ \cup {item.key}]
                                  ELSE [@ EXCEPT !.rel = @ \cup {item.key}]]

\* a data statement sent with k.Query
SendOnConnection(st, item, failAt) ==
    LET x == Exec(st.eng, item.stmt)
        failed == st.n + 1 = failAt \/ x.err
        log == Append(st.h.log,
                      [stmt |-> item.stmt, via |-> "kquery", at |-> Len(st.h.ops)])
    IN  [st EXCEPT !.n = @ + 1, !.h.log = log, !.err = failed,
                   !.cause = IF failed THEN "write" ELSE @,
                   !.eng = IF failed THEN @ ELSE x.eng]

\* a data statement sent with tx.Query
SendOnHandle(st, item, failAt) ==
    LET x == Exec(st.eng, item.stmt)
        failed == st.n + 1 = failAt \/ x.err
        r == QueryF(st.h, TRUE, item.stmt, IF failed THEN "fail" ELSE "ok")
        sent == Len(r.h.log) > Len(st.h.log)
    IN  [st EXCEPT !.h = r.h, !.err = r.err,
                   !.cause = IF ~r.err THEN @ ELSE IF sent THEN "write" ELSE "handle",
                   !.n = IF sent THEN @ + 1 ELSE @,
                   !.eng = IF sent /\ ~failed THEN x.eng ELSE @]

RunItem(st, item, mode, failAt) ==
    IF st.err THEN st
    ELSE CASE item.k = "validate" ->
                IF \A i \in 1..Len(item.docs) : validateGraphDocument(item.docs[i])
                THEN st ELSE [st EXCEPT !.err = TRUE, !.cause = "validation"]
           [] item.k = "ddl" -> CreateTable(st, item, failAt)
           [] item.k = "data" ->
                IF mode = "tx" THEN SendOnHandle(st, item, failAt)
                ELSE SendOnConnection(st, item, failAt)

RECURSIVE RunPlan(_, _, _, _)
\* the statements of plan in order, up to the first error
RunPlan(plan, st, mode, failAt) ==
    IF plan = <<>> \/ st.err THEN st
    ELSE RunPlan(Tail(plan), RunItem(st, Head(plan), mode, failAt), mode, failAt)

\* a handle that is not in use
NoHandle == [state |-> TransactionIdle, ops |-> <<>>, cancelled |-> FALSE, log |-> <<>>]

\* the store as an import call finds it, the call using handle h
Store(h) ==
    [cache |-> [node |-> nodeTables, rel |-> relTables],
     eng |-> engine, h |-> h, n |-> 0, err |-> FALSE, cause |-> "none"]

(***************************************************************************)
(* Inputs of the import calls                                              *)
(***************************************************************************)
\* documents per call
MaxDocs == 2

\* the engine refuses at most one statement of a call, among the first MaxFail
MaxFail == 8

\* AddGraphDocumentsWithTransaction is called on a handle that has logged
\* fewer operations than this
MaxTxOps == 4

Person == <<"P", "e", "r", "s", "o", "n">>
Knows == <<"K", "N", "O", "W", "S">>
Company == <<"C", "o", "m", "p", "a", "n", "y">>

PersonNode(id, props) == [id |-> id, type |-> Person, props |-> props]

KnowsRel(sourceId, targetId, props) ==
    [type |-> Knows, props |-> props,
     source |-> [id |-> sourceId, type |-> Person],
     target |-> [id |-> targetId, type |-> Person]]

Rel(sourceId, sourceType, relType, targetId, targetType) ==
    [type |-> relType, props |-> {},
     source |-> [id |-> sourceId, type |-> sourceType],
     target |-> [id |-> targetId, type |-> targetType]]

Prop(key, value) == [k |-> key, v |-> value]

\* alice -[KNOWS]-> bob
DocAliceBob ==
    [nodes |-> <<PersonNode("alice", {}), PersonNode("bob", {})>>,
     rels |-> <<KnowsRel("alice", "bob", {})>>,
     content |-> ""]

\* a node without an id
DocEmptyId ==
    [nodes |-> <<PersonNode("", {})>>, rels |-> <<>>, content |-> ""]

\* a small document with properties, of every kind of value
DocProps ==
    [nodes |-> <<PersonNode("ann", {}),
                 PersonNode("ben", {Prop("name", StrV("B")), Prop("age", IntV(7)),
                                    Prop("meta", JsonV("a", 1))})>>,
     rels |-> <<KnowsRel("ann", "ben", {Prop("since", StrV("2020"))})>>,
     content |-> "text"]

\* a document over the threshold; its second node has a property
DocBig ==
    [nodes |-> [i \in 1..(BatchThreshold + 1) |->
                  PersonNode("n" \o ToString(i),
                             IF i = 2 THEN {Prop("name", StrV("B"))} ELSE {})],
     rels |-> <<KnowsRel("n1", "n2", {})>>,
     content |-> "text"]

\* alice -[KNOWS]-> carol, and no node carol
DocDangling ==
    [nodes |-> <<PersonNode("alice", {}), PersonNode("bob", {})>>,
     rels |-> <<KnowsRel("alice", "carol", {})>>,
     content |-> ""]

\* a person who knows a company
DocTwoTypes ==
    [nodes |-> <<PersonNode("alice", {}),
                 [id |-> "acme", type |-> Company, props |-> {}]>>,
     rels |-> <<Rel("alice", Person, Knows, "acme", Company)>>,
     content |-> ""]

\* a document that names the node alice twice
DocRepeated ==
    [nodes |-> <<PersonNode("alice", {}), PersonNode("alice", {Prop("name", StrV("A"))})>>,
     rels |-> <<>>,
     content |-> ""]

DocPool == {DocAliceBob, DocEmptyId, DocProps, DocBig}

\* document lists of up to MaxDocs documents, lists that reach into the
\* second group of DocBatchSize documents, the document with a
\* relationship to a node that does not exist, a list whose second
\* document brings a node type and a relationship triple of its own, and
\* the document with a repeated node
Inputs ==
    UNION {[1..m -> DocPool] : m \in 0..MaxDocs}
    \cup {[i \in 1..DocBatchSize |-> DocAliceBob] \o <<d>> : d \in DocPool}
    \cup {<<DocDangling>>, <<DocAliceBob, DocTwoTypes>>, <<DocRepeated>>}

\* the first import call is free; later calls import the same input again.
\* includeSource is the IncludeSource option
Arguments(sourceOptions) ==
    IF call.api = "none" THEN Inputs \X sourceOptions
    ELSE {<<call.docs, call.includeSource>>}

\* the statement of a call the engine refuses; 0: none
FailPoints == 0..MaxFail

\* what is recorded of a call that ended in st: its input, its result, and
\* the creation cache it started with
CallRecord(api, docs, includeSource, st, tx) ==
    [api |-> api, docs |-> docs, includeSource |-> includeSource,
     err |-> st.err, sent |-> st.n, tx |-> tx, cause |-> st.cause,
     cache |-> [node |-> nodeTables, rel |-> relTables],
     again |-> call.api # "none",
     prevOk |-> call.api # "none" /\ ~call.err]

\* the store after an import call that ended in st
Stored(st, rec) ==
    /\ nodeTables' = st.cache.node
    /\ relTables' = st.cache.rel
    /\ engine' = st.eng
    /\ before' = engine
    /\ engineLog' = st.h.log
    /\ call' = rec
    /\ last' = Call(rec.api, rec.err)
    /\ UNCHANGED <<viaBatch, viaIndividual, schemaVars, pureVars>>

(***************************************************************************)
(* The import calls.  engineLog holds the statements since the start of    *)
(* the last import call.                                                   *)
(***************************************************************************)
\* Kuzu.AddGraphDocument
AddGraphDocument ==
    /\ call.api \in {"none", "AddGraphDocument"}
    /\ txState = TransactionIdle /\ rit = "none"
    /\ \E a \in Arguments(BOOLEAN), failAt \in FailPoints :
         \E fin \in {IF ~connected THEN [Store(NoHandle) EXCEPT !.err = TRUE, !.cause = "connection"]
                     ELSE RunPlan(AddGraphDocumentPlan(a[1], a[2]),
                                  Store(NoHandle), "conn", failAt)} :
             /\ failAt <= fin.n
             /\ Stored(fin, CallRecord("AddGraphDocument", a[1], a[2],
                                       fin, TransactionIdle))
    /\ UNCHANGED <<connected, ctxCancelled, txState, operations, rit, fnRet, ritResult>>

\* RunInTransaction(addGraphDocumentsInTransaction) as AddGraphDocuments
\* calls it: BeginTransaction, the import, Rollback or Commit, and the
\* deferred Close.  The control statements begin with "--": whether the
\* engine skips or rejects them (their errors are dropped), it is never
\* told to open, commit or roll back a transaction
RunInTransactionImport(docs, failAt) ==
    IF docs = <<>> THEN Store(NoHandle)
    ELSE IF ~connected THEN [Store(NoHandle) EXCEPT !.err = TRUE, !.cause = "connection"]
    ELSE LET begun == Store(BeginF(connected, FALSE, <<>>, FALSE, "ok")) IN
         CHOOSE fin \in
             {[ran EXCEPT !.err = ran.err \/ ended.err,
                          !.h = CloseF(ended.h, connected, "ok").h] :
                 <<ran, ended>> \in
                    {<<r, IF r.err THEN RollbackF(r.h, connected, "ok")
                                  ELSE CommitF(r.h, connected, "ok")>> :
                        r \in {RunPlan(addGraphDocumentsInTransaction(docs),
                                       begun, "tx", failAt)}}} : TRUE

\* Kuzu.AddGraphDocuments: RunInTransaction around
\* addGraphDocumentsInTransaction, on a handle of its own.  The
\* transactional path reads no option, so the default options are passed
AddGraphDocuments ==
    /\ call.api \in {"none", "AddGraphDocuments"}
    /\ txState = TransactionIdle /\ rit = "none"
    /\ \E a \in Arguments({FALSE}), failAt \in FailPoints :
         \E fin \in {RunInTransactionImport(a[1], failAt)} :
             /\ failAt <= fin.n
             /\ Stored(fin, CallRecord("AddGraphDocuments", a[1], a[2],
                                       fin, fin.h.state))
    /\ UNCHANGED <<connected, ctxCancelled, txState, operations, rit, fnRet, ritResult>>

\* Kuzu.AddGraphDocumentsWithTransaction, on the handle the caller holds
AddGraphDocumentsWithTransaction ==
    /\ call.api \in {"none", "AddGraphDocumentsWithTransaction"}
    /\ Holds /\ connected
    /\ Len(operations) < MaxTxOps
    /\ \E a \in Arguments({FALSE}), failAt \in FailPoints :
         \E fin \in {IF a[1] = <<>> THEN Store([Handle EXCEPT !.log = <<>>])
                     ELSE RunPlan(addGraphDocumentsInTransaction(a[1]),
                                  Store([Handle EXCEPT !.log = <<>>]),
                                  "tx", failAt)} :
             /\ failAt <= fin.n
             /\ Stored(fin, CallRecord("AddGraphDocumentsWithTransaction", a[1], a[2],
                                       fin, fin.h.state))
             /\ txState' = fin.h.state
             /\ operations' = fin.h.ops
             /\ ctxCancelled' = fin.h.cancelled
    /\ UNCHANGED <<connected, rit, fnRet, ritResult>>

\* before the first import call, the caller opens a handle to import
\* through, may end it, and may close the store
ImportBegin ==
    /\ call.api = "none"
    /\ txState = TransactionIdle /\ rit = "none" /\ connected
    /\ BeginEffect(FALSE, "ok")
    /\ UNCHANGED <<connected, rit, fnRet, ritResult>>
    /\ UNCHANGED <<importVars, schemaVars, pureVars>>

ImportCommit ==
    /\ call.api = "none"
    /\ Holds /\ IsActive(txState)
    /\ CommitEffect("ok")
    /\ UNCHANGED <<connected, rit, fnRet, ritResult>>
    /\ UNCHANGED <<importVars, schemaVars, pureVars>>

ImportRollback ==
    /\ call.api = "none"
    /\ Holds /\ IsActive(txState)
    /\ RollbackEffect("ok")
    /\ UNCHANGED <<connected, rit, fnRet, ritResult>>
    /\ UNCHANGED <<importVars, schemaVars, pureVars>>

StoreClose == call.api = "none" /\ KuzuClose

ImportNext ==
    \/ ImportBegin
    \/ ImportCommit
    \/ ImportRollback
    \/ StoreClose
    \/ AddGraphDocument
    \/ AddGraphDocuments
    \/ AddGraphDocumentsWithTransaction

ImportSpec == Init /\ [][ImportNext]_vars

(***************************************************************************)
(* The two write paths on one document.  A document is drawn, and each     *)
(* path writes it to a database of its own, after ensureTablesExist, as    *)
(* processGraphDocument (outside a transaction) and                        *)
(* processGraphDocumentInTransaction (inside one) call it.                 *)
(***************************************************************************)
\* nodes per drawn document
MaxPathNodes == 2

PathIds == <<"a", "b", "c", "d">>

PathProps ==
    {{}, {Prop("name", StrV("A"))}, {Prop("id", StrV("x"))}}

PathNodeLists ==
    UNION {{[i \in 1..m |-> PersonNode(PathIds[i], ps[i])] : ps \in [1..m -> PathProps]} :
              m \in 1..MaxPathNodes}

\* no relationship, or one from the first node to the last
PathRelLists(nodes) ==
    {<<>>} \cup
    {<<KnowsRel(nodes[1].id, nodes[Len(nodes)].id, ps)>> :
        ps \in {{}, {Prop("since", StrV("2020"))}}}

PathDocs ==
    UNION {{[nodes |-> ns, rels |-> rs, content |-> c] :
               rs \in PathRelLists(ns), c \in {"", "text"}} : ns \in PathNodeLists}

PathCall(doc, includeSource, inTx) ==
    [api |-> "path", docs |-> <<doc>>, includeSource |-> includeSource,
     err |-> FALSE, sent |-> 0, again |-> FALSE, prevOk |-> FALSE,
     tx |-> IF inTx THEN TransactionActive ELSE TransactionIdle,
     cause |-> "none", cache |-> [node |-> {}, rel |-> {}]]

\* a fresh store, with an active handle if the path runs in a transaction
FreshStore(inTx) ==
    [cache |-> [node |-> {}, rel |-> {}], eng |-> EmptyEngine,
     h |-> IF inTx THEN BeginF(TRUE, FALSE, <<>>, FALSE, "ok") ELSE NoHandle,
     n |-> 0, err |-> FALSE, cause |-> "none"]

Written(st) == [written |-> TRUE, err |-> st.err, eng |-> st.eng]

\* the statements of each path for the drawn document
BatchedPlan ==
    LET doc == call.docs[1]
        inTx == call.tx = TransactionActive
    IN ensureTablesExist(doc) \o processBatch(doc, ~inTx /\ call.includeSource)

IndividualPlan ==
    LET doc == call.docs[1]
        inTx == call.tx = TransactionActive
    IN ensureTablesExist(doc)
       \o processIndividually(doc, inTx)

PathMode == IF call.tx = TransactionActive THEN "tx" ELSE "conn"

WriteBatched ==
    /\ call.api = "path" /\ ~viaBatch.written
    /\ viaBatch' = Written(RunPlan(BatchedPlan, FreshStore(call.tx = TransactionActive),
                                   PathMode, 0))
    /\ UNCHANGED <<txVars, nodeTables, relTables, engine, before, call, viaIndividual,
                   schemaVars, pureVars>>

WriteIndividually ==
    /\ call.api = "path" /\ ~viaIndividual.written
    /\ viaIndividual' = Written(RunPlan(IndividualPlan, FreshStore(call.tx = TransactionActive),
                                        PathMode, 0))
    /\ UNCHANGED <<txVars, nodeTables, relTables, engine, before, call, viaBatch,
                   schemaVars, pureVars>>

PathInit ==
    /\ TxInit
    /\ nodeTables = {}
    /\ relTables = {}
    /\ engine = EmptyEngine
    /\ before = EmptyEngine
    /\ call \in {PathCall(doc, src, inTx) :
                    doc \in PathDocs, src \in BOOLEAN, inTx \in BOOLEAN}
    /\ viaBatch = NotWritten
    /\ viaIndividual = NotWritten
    /\ SchemaInit
    /\ PureInit

PathNext == WriteBatched \/ WriteIndividually

PathSpec == PathInit /\ [][PathNext]_vars

(***************************************************************************)
(* Properties of the import calls                                          *)
(***************************************************************************)
Imported == call.api \in {"AddGraphDocument", "AddGraphDocuments",
                          "AddGraphDocumentsWithTransaction"}

HasInvalidDocument(docs) == \E i \in 1..Len(docs) : ~validateGraphDocument(docs[i])

\* C7: a call whose input holds a document that fails validation, at any
\* position, returns an error and has sent no statement, DDL or data, to
\* the engine.
C7_Original ==
    Imported /\ HasInvalidDocument(call.docs) => call.err /\ call.sent = 0

\* C8: importing the same input again after a successful import of it
\* leaves the database as the first import left it; for alice, bob and one
\* KNOWS edge, exactly 2 nodes and 1 edge persist.
C8_Idempotent ==
    Imported /\ call.again /\ call.prevOk /\ ~call.err =>
        /\ engine = before
        /\ call.docs = <<DocAliceBob>> =>
              Cardinality(engine.nodes) = 2 /\ Cardinality(engine.edges) = 1

C8_Witness ==
    /\ Imported /\ call.again /\ call.prevOk /\ ~call.err
    /\ call.docs = <<DocAliceBob>>
    /\ Cardinality(engine.nodes) = 2 /\ Cardinality(engine.edges) = 1
    /\ engine = before

\* C9: the batched path and the individual path leave the same nodes, edges
\* and property maps for the same document.
C9_Original ==
    viaBatch.written /\ viaIndividual.written =>
        /\ viaBatch.eng.nodes = viaIndividual.eng.nodes
        /\ viaBatch.eng.edges = viaIndividual.eng.edges

\* C10: when AddGraphDocuments returns an error, no node or relationship
\* write of the call remains in the database.
C10_Original ==
    call.api = "AddGraphDocuments" /\ call.err =>
        engine.nodes = before.nodes /\ engine.edges = before.edges

\* C11: an import call that fails in validation or in creating a table
\* leaves no trace: the database and the creation cache are as they were
\* before the call.
C11_Original ==
    Imported /\ call.err /\ call.cause \in {"validation", "table"} =>
        /\ engine = before
        /\ nodeTables = call.cache.node
        /\ relTables = call.cache.rel

(***************************************************************************)
(* Table creation by concurrent goroutines.  Every goroutine calls          *)
(* createNodeTable or createRelationshipTable, one step at a time:          *)
(* k.tablesMux.Lock and the cache check, the CREATE statement on the        *)
(* connection, the cache entry, and the deferred Unlock.                    *)
(***************************************************************************)
MutexFreeAlways(mux) == TRUE

\* sync.Mutex.Lock returns when no goroutine holds the mutex
MutexFree(mux) == mux = 0

\* the table creations the goroutines ask for: two node types, and one
\* relationship type between two different pairs of them
SchemaItems ==
    {NodeTableItem(Person), NodeTableItem(Company),
     RelTableItem(Knows, Person, Person), RelTableItem(Knows, Person, Company)}

\* k.nodeTables[nodeType] / k.relTables[key]
Cached(item) ==
    IF item.cache = "node" THEN item.key \in nodeTables ELSE item.key \in relTables

schemaRest == <<txVars, before, call, viaBatch, viaIndividual,
                structuredSchema, schemaCache, observed, pureVars>>

\* a goroutine calls createNodeTable(nodeType) or
\* createRelationshipTable(relType, sourceType, targetType)
CreateEnter(g) ==
    /\ callers[g].pc = "idle"
    /\ \E item \in SchemaItems :
           callers' = [callers EXCEPT ![g] = [pc |-> "lock", item |-> item, sent |-> FALSE]]
    /\ UNCHANGED <<nodeTables, relTables, engine, tablesMux, executed, schemaRest>>

\* k.tablesMux.Lock(); if k.nodeTables[nodeType] { return nil }
CreateLock(g) ==
    /\ callers[g].pc = "lock"
    /\ MutexFree(tablesMux)
    /\ tablesMux' = g
    /\ callers' = [callers EXCEPT ![g].pc =
                      IF Cached(callers[g].item) THEN "unlock" ELSE "query"]
    /\ UNCHANGED <<nodeTables, relTables, engine, executed, schemaRest>>

\* _, err := k.connection.Query(query); the engine may refuse the statement
CreateQuery(g) ==
    /\ callers[g].pc = "query"
    /\ LET item == callers[g].item
           name == <<item.cache, item.key>>
           x == Exec(engine, item.stmt)
       IN  \E refused \in BOOLEAN :
              LET ok == ~refused /\ ~x.err
              IN  /\ engine' = IF ok THEN x.eng ELSE engine
                  /\ executed' =
                        [once |-> IF ok THEN executed.once \cup {name}
                                  ELSE executed.once,
                         again |-> IF name \in executed.once
                                   THEN executed.again \cup {name}
                                   ELSE executed.again]
                  /\ callers' = [callers EXCEPT ![g].sent = TRUE,
                                    ![g].pc = IF ok THEN "mark" ELSE "unlock"]
    /\ UNCHANGED <<nodeTables, relTables, tablesMux, schemaRest>>

\* k.nodeTables[nodeType] = true / k.relTables[key] = true
CreateMark(g) ==
    /\ callers[g].pc = "mark"
    /\ LET item == callers[g].item
       IN  /\ nodeTables' = IF item.cache = "node" THEN nodeTables \cup {item.key}
                            ELSE nodeTables
           /\ relTables' = IF item.cache = "rel" THEN relTables \cup {item.key}
                           ELSE relTables
    /\ callers' = [callers EXCEPT ![g].pc = "unlock"]
    /\ UNCHANGED <<engine, tablesMux, executed, schemaRest>>

\* defer k.tablesMux.Unlock()
CreateUnlock(g) ==
    /\ callers[g].pc = "unlock"
    /\ tablesMux' = 0
    /\ callers' = [callers EXCEPT ![g].pc = "idle"]
    /\ UNCHANGED <<nodeTables, relTables, engine, executed, schemaRest>>

SchemaNext ==
    \E g \in Goroutines :
        \/ CreateEnter(g)
        \/ CreateLock(g)
        \/ CreateQuery(g)
        \/ CreateMark(g)
        \/ CreateUnlock(g)

SchemaSpec == Init /\ [][SchemaNext]_vars

(***************************************************************************)
(* Schema introspection.  The store has created the tables of a document;  *)
(* RefreshSchema asks the engine for its catalog, GetSchema and             *)
(* GetSchemaVersion read what the refresh left.  Go leaves the iteration    *)
(* order of a map open: every range over a map takes its keys in an order   *)
(* the model draws.  The engine's answers are drawn once: SHOW TABLES fails *)
(* or not, table_info fails for some tables, and the records carry the      *)
(* columns the code reads (table_name, property_name, property_type) or     *)
(* not.                                                                     *)
(***************************************************************************)
\* reads of the schema kept per run
MaxObserved == 2

\* the orders a range over a map with these keys can take
Orderings(keys) ==
    {o \in [1..Cardinality(keys) -> keys] :
        \A i, j \in 1..Cardinality(keys) : o[i] = o[j] => i = j}

\* the names in the engine's catalog
TableNames(eng) == eng.ntabs \cup {t.name : t \in eng.rtabs}

\* the columns the DDL of the store gives a table
ColumnsOf(name) ==
    IF name = ChunkLabel
    THEN <<[name |-> "id", type |-> "STRING"], [name |-> "text", type |-> "STRING"],
           [name |-> "type", type |-> "STRING"],
           [name |-> "properties", type |-> "MAP(STRING, STRING)"]>>
    ELSE IF name \in engine.ntabs
    THEN <<[name |-> "id", type |-> "STRING"], [name |-> "type", type |-> "STRING"],
           [name |-> "properties", type |-> "MAP(STRING, STRING)"]>>
    ELSE <<[name |-> "properties", type |-> "MAP(STRING, STRING)"]>>

\* getTablesInfoAlternative: the creation cache; a relationship table goes by
\* its cache key and has no endpoint types
getTablesInfoAlternative ==
    {[name |-> t, isNodeTable |-> TRUE] : t \in nodeTables}
    \cup {[name |-> key, isNodeTable |-> FALSE] : key \in relTables}

\* getAllTablesInfo: SHOW TABLES; every record with a table_name is taken as
\* a node table
getAllTablesInfo(answers) ==
    IF answers.catalogFails THEN getTablesInfoAlternative
    ELSE IF answers.columns
    THEN {[name |-> t, isNodeTable |-> TRUE] : t \in TableNames(engine)}
    ELSE {}

\* getTableProperties: CALL table_info('name'); err when the engine refuses
\* it or has no table of that name
getTableProperties(tableName, answers) ==
    IF tableName \in answers.infoFails \/ tableName \notin TableNames(engine)
    THEN [err |-> TRUE, props |-> <<>>]
    ELSE [err |-> FALSE,
          props |-> IF answers.columns THEN ColumnsOf(tableName) ELSE <<>>]

\* introspectSchema: the maps nodeTables and relTables it hands to
\* updateStructuredSchema; a node table whose properties cannot be read is
\* left out
introspectSchema(answers) ==
    LET tablesInfo == getAllTablesInfo(answers)
    IN  [nodeTables |->
            {[label |-> t.name, properties |-> getTableProperties(t.name, answers).props] :
                t \in {u \in tablesInfo :
                         u.isNodeTable /\ ~getTableProperties(u.name, answers).err}},
         relTables |->
            {[name |-> t.name, source_type |-> <<>>, target_type |-> <<>>] :
                t \in {u \in tablesInfo : ~u.isNodeTable}}]

\* updateStructuredSchema: ranges over the two maps, in the order drawn
updateStructuredSchema(nodeOrder, relOrder) ==
    [keys |-> {"node_types", "relationship_types", "total_tables"},
     node_types |-> nodeOrder,
     relationship_types |-> relOrder,
     total_tables |-> Len(nodeOrder) + Len(relOrder)]

\* buildSchemaDescription: the lines of the text, each the pieces its format
\* string joins
buildSchemaDescription(schema) ==
    <<<<"Node properties:">>>>
    \o Flatten([i \in 1..Len(schema.node_types) |->
          LET nodeType == schema.node_types[i]
          IN  <<<<"  ", nodeType.label, ":">>>>
              \o [j \in 1..Len(nodeType.properties) |->
                    <<"    - ", nodeType.properties[j].name, ": ",
                      nodeType.properties[j].type>>]])
    \o <<<<"">>, <<"Relationship properties:">>>>
    \o [i \in 1..Len(schema.relationship_types) |->
          LET relType == schema.relationship_types[i]
          IN <<"  ", relType.name, ": ", relType.source_type, " -> ",
               relType.target_type>>]
    \o <<<<"">>, <<"Relationships:">>>>
    \o [i \in 1..Len(schema.relationship_types) |->
          LET relType == schema.relationship_types[i]
          IN <<"  (:", relType.source_type, ")-[:", relType.name, "]->(:",
               relType.target_type, ")">>]

RECURSIVE HashKeys(_, _)
\* GetSchemaVersion: hash = hash*31 + len(key) over the keys in the order
\* the range takes them; no value of the snapshot is a string, so the
\* characters of no value are added
HashKeys(order, hash) ==
    IF order = <<>> THEN hash
    ELSE HashKeys(Tail(order), hash * 31 + Len(Head(order)))

\* GetSchemaVersion: fmt.Sprintf("v%d", hash)
GetSchemaVersionOf(schema, order) == <<"v", HashKeys(order, 0)>>

introspectRest == <<txVars, importVars, tablesMux, callers, executed, pureVars>>

\* RefreshSchema
RefreshSchema ==
    /\ connected
    /\ LET maps == introspectSchema(observed.catalog)
       IN  \E nodeOrder \in Orderings(maps.nodeTables),
              relOrder \in Orderings(maps.relTables) :
               /\ structuredSchema' = updateStructuredSchema(nodeOrder, relOrder)
               /\ schemaCache' = buildSchemaDescription(structuredSchema')
    /\ observed' = [observed EXCEPT !.refreshed = TRUE, !.err = FALSE,
                                    !.versions = <<>>]
    /\ UNCHANGED introspectRest

\* GetSchema, after a refresh
GetSchema ==
    /\ observed.refreshed
    /\ observed.versions = <<>>
    /\ Len(observed.texts) < MaxObserved
    /\ observed' = [observed EXCEPT !.texts = Append(@, schemaCache)]
    /\ UNCHANGED <<introspectRest, structuredSchema, schemaCache>>

\* GetSchemaVersion, its range over the snapshot in the order drawn
GetSchemaVersion ==
    /\ observed.texts = <<>>
    /\ Len(observed.versions) < MaxObserved
    /\ \E order \in Orderings(structuredSchema.keys) :
          observed' = [observed EXCEPT !.versions =
                          Append(@, GetSchemaVersionOf(structuredSchema, order))]
    /\ UNCHANGED <<introspectRest, structuredSchema, schemaCache>>

\* the store after ensureTablesExist(doc)
StoreWithTablesOf(doc) == RunPlan(ensureTablesExist(doc), FreshStore(FALSE), "conn", 0)

\* how the engine may answer the catalog queries
CatalogAnswers ==
    [catalogFails : BOOLEAN, columns : BOOLEAN, infoFails : {{}, {Person}}]

IntrospectInit ==
    /\ TxInit /\ PureInit
    /\ \E doc \in {DocAliceBob, DocTwoTypes} :
          LET st == StoreWithTablesOf(doc)
          IN  /\ nodeTables = st.cache.node
              /\ relTables = st.cache.rel
              /\ engine = st.eng
              /\ before = st.eng
    /\ call = NoCall
    /\ viaBatch = NotWritten
    /\ viaIndividual = NotWritten
    /\ tablesMux = 0
    /\ callers = [g \in Goroutines |-> Idle]
    /\ executed = [once |-> {}, again |-> {}]
    /\ structuredSchema = NoSchema
    /\ schemaCache = <<>>
    /\ observed \in {[NoObservation EXCEPT !.catalog = a] : a \in CatalogAnswers}

IntrospectNext == RefreshSchema \/ GetSchema \/ GetSchemaVersion

IntrospectSpec == IntrospectInit /\ [][IntrospectNext]_vars

(***************************************************************************)
(* DeduplicateNodes and DeduplicateRelationships.  A list is drawn, the    *)
(* function is applied to it, and then applied to its own result.          *)
(***************************************************************************)
\* longest list handed to a deduplication function
MaxDedup == 3

RECURSIVE Text(_)
\* a type label as the string "%s" formats it
Text(label) == IF label = <<>> THEN "" ELSE Head(label) \o Text(Tail(label))

NodeSeenKeyWithType(node) == node.id \o "/" \o Text(node.type)

\* DeduplicateNodes: seen[node.ID]
NodeSeenKey(node) == node.id

RECURSIVE DeduplicateNodesLoop(_, _, _)
\* DeduplicateNodes: for _, node := range nodes { if !seen[node.ID] { ... } }
DeduplicateNodesLoop(nodes, seen, result) ==
    IF nodes = <<>> THEN result
    ELSE LET node == Head(nodes)
         IN  IF NodeSeenKey(node) \notin seen
             THEN DeduplicateNodesLoop(Tail(nodes), seen \cup {NodeSeenKey(node)},
                                       Append(result, node))
             ELSE DeduplicateNodesLoop(Tail(nodes), seen, result)

\* DeduplicateNodes
DeduplicateNodes(nodes) == DeduplicateNodesLoop(nodes, {}, <<>>)

\* DeduplicateRelationships:
\* fmt.Sprintf("%s_%s_%s_%s", rel.Source.ID, rel.Type, rel.Target.ID,
\*             rel.Source.Type+"_"+rel.Target.Type)
RelSeenKey(rel) ==
    rel.source.id \o "_" \o Text(rel.type) \o "_" \o rel.target.id \o "_"
        \o (Text(rel.source.type) \o "_" \o Text(rel.target.type))

RECURSIVE DeduplicateRelationshipsLoop(_, _, _)
\* DeduplicateRelationships: for _, rel := range relationships { ... }
DeduplicateRelationshipsLoop(relationships, seen, result) ==
    IF relationships = <<>> THEN result
    ELSE LET rel == Head(relationships)
         IN  IF RelSeenKey(rel) \notin seen
             THEN DeduplicateRelationshipsLoop(Tail(relationships),
                                               seen \cup {RelSeenKey(rel)},
                                               Append(result, rel))
             ELSE DeduplicateRelationshipsLoop(Tail(relationships), seen, result)

\* DeduplicateRelationships
DeduplicateRelationships(relationships) ==
    DeduplicateRelationshipsLoop(relationships, {}, <<>>)

\* nodes of two ids, two types, with and without a property
DedupNodePool ==
    {[id |-> id, type |-> type, props |-> props] :
        id \in {"1", "2"}, type \in {Person, Company},
        props \in {{}, {Prop("name", StrV("B"))}}}

\* relationships between two ids, one of them with an underscore in it, under
\* two relationship types, one of them with an underscore in it; and two
\* relationships whose endpoints differ from the others in their types only
DedupRelPool ==
    {Rel(sourceId, Person, relType, targetId, Person) :
        sourceId \in {"a", "a_b"}, targetId \in {"a", "a_b"},
        relType \in {<<"c">>, <<"b", "_", "c">>}}
    \cup {Rel("a", Company, <<"c">>, "a_b", Person),
          Rel("a", Person, <<"c">>, "a_b", Company)}

ListsOver(pool, n) == UNION {[1..m -> pool] : m \in 0..n}

DedupInputs ==
    {[kind |-> "nodes", list |-> l] : l \in ListsOver(DedupNodePool, MaxDedup)}
    \cup {[kind |-> "rels", list |-> l] : l \in ListsOver(DedupRelPool, MaxDedup)}

otherVars == <<txVars, importVars, schemaVars>>

\* store.DeduplicateNodes(nodes)
DedupNodes ==
    /\ input.kind = "nodes" /\ output.stage = 0
    /\ output' = [output EXCEPT !.stage = 1, !.once = DeduplicateNodes(input.list)]
    /\ UNCHANGED <<otherVars, input>>

\* store.DeduplicateNodes(result) on the result of the first call
DedupNodesAgain ==
    /\ input.kind = "nodes" /\ output.stage = 1
    /\ output' = [output EXCEPT !.stage = 2, !.twice = DeduplicateNodes(output.once)]
    /\ UNCHANGED <<otherVars, input>>

\* store.DeduplicateRelationships(relationships)
DedupRels ==
    /\ input.kind = "rels" /\ output.stage = 0
    /\ output' = [output EXCEPT !.stage = 1,
                                !.once = DeduplicateRelationships(input.list)]
    /\ UNCHANGED <<otherVars, input>>

\* store.DeduplicateRelationships(result) on the result of the first call
DedupRelsAgain ==
    /\ input.kind = "rels" /\ output.stage = 1
    /\ output' = [output EXCEPT !.stage = 2,
                                !.twice = DeduplicateRelationships(output.once)]
    /\ UNCHANGED <<otherVars, input>>

DedupInit ==
    /\ TxInit /\ ImportInit /\ SchemaInit
    /\ input \in DedupInputs
    /\ output = NoOutput

DedupNext == DedupNodes \/ DedupNodesAgain \/ DedupRels \/ DedupRelsAgain

DedupSpec == DedupInit /\ [][DedupNext]_vars

\* the 5-tuple that tells relationships apart
FiveTuple(rel) ==
    <<rel.source.id, rel.type, rel.target.id, rel.source.type, rel.target.type>>

\* the positions of l that hold the first element with their id
FirstById(l) == {i \in 1..Len(l) : \A j \in 1..(i - 1) : l[j].id # l[i].id}

FirstByTuple(l) ==
    {i \in 1..Len(l) : \A j \in 1..(i - 1) : FiveTuple(l[j]) # FiveTuple(l[i])}

\* r is l restricted to the positions in keep, in order
IsRestriction(r, l, keep) ==
    /\ Len(r) = Cardinality(keep)
    /\ \A i \in keep : r[Cardinality({j \in keep : j <= i})] = l[i]

\* C12: DeduplicateNodes returns its argument restricted to the first node of
\* every id, in the original order, and applying it to its own result
\* changes nothing.
C12_FirstOfEachId ==
    input.kind = "nodes" =>
        /\ output.stage >= 1 => IsRestriction(output.once, input.list, FirstById(input.list))
        /\ output.stage = 2 => output.twice = output.once

\* C12 witness: a list with a repeated id has been deduplicated twice
\* ("1", "1", "2" as in the test, the second "1" of another type)
C12_Witness ==
    /\ input.kind = "nodes" /\ output.stage = 2
    /\ Len(input.list) = 3
    /\ input.list[1].id = "1" /\ input.list[2].id = "1" /\ input.list[3].id = "2"
    /\ input.list[2].type # input.list[1].type
    /\ output.once = <<input.list[1], input.list[3]>>

\* C13: DeduplicateRelationships returns its argument restricted to the first
\* relationship of every 5-tuple (source id, type, target id, source type,
\* target type): a relationship is dropped exactly when an earlier one has
\* the same 5-tuple, whatever characters the strings hold.
C13_Original ==
    input.kind = "rels" /\ output.stage >= 1 =>
        IsRestriction(output.once, input.list, FirstByTuple(input.list))

\* C13 counterexample: (a_b)-[c]->(a) is followed by (a)-[b_c]->(a), a
\* different relationship, and only the first is returned
C13_Merged ==
    /\ input.kind = "rels" /\ output.stage >= 1
    /\ input.list = <<Rel("a_b", Person, <<"c">>, "a", Person),
                      Rel("a", Person, <<"b", "_", "c">>, "a", Person)>>
    /\ output.once = <<Rel("a_b", Person, <<"c">>, "a", Person)>>

\* C14: once the create-node-table statement of a type has succeeded, it is
\* never executed again, by any goroutine: a later or concurrent
\* createNodeTable of the type finds it cached and sends nothing.
C14_CreatedOnce ==
    \A name \in executed.again : name[1] # "node"

\* C14 witness: both goroutines called createNodeTable(Person); the first
\* created the table, the second found it cached and holds the mutex on its
\* way out without having sent a statement
C14_Witness ==
    /\ callers[1].item = NodeTableItem(Person) /\ callers[1].sent
    /\ callers[1].pc = "idle"
    /\ callers[2].item = NodeTableItem(Person) /\ ~callers[2].sent
    /\ callers[2].pc = "unlock"
    /\ <<"node", Person>> \in executed.once

\* C15: every relationship triple cached as created has a relationship table
\* with its own endpoint pair in the database, so two triples that differ in
\* their endpoints have two tables.
C15_Original ==
    \A item \in SchemaItems :
        item.cache = "rel" /\ item.key \in relTables =>
            [name |-> item.stmt.name, from |-> item.stmt.from, to |-> item.stmt.to]
                \in engine.rtabs

\* C15: (Person, KNOWS, Person) and (Person, KNOWS, Company) are both cached
\* as created and the database holds one KNOWS table
C15_SharedTable ==
    /\ RelTableItem(Knows, Person, Person).key \in relTables
    /\ RelTableItem(Knows, Person, Company).key \in relTables
    /\ Cardinality(engine.rtabs) = 1

\* rel has an endpoint that is no node of the database
Dangling(rel) ==
    \/ ~\E n \in engine.nodes :
           n.table = sanitizeIdentifier(rel.source.type) /\ n.id = rel.source.id
    \/ ~\E n \in engine.nodes :
           n.table = sanitizeIdentifier(rel.target.type) /\ n.id = rel.target.id

\* C16: an import call that writes, by the individual path, a relationship
\* whose source or target node does not exist returns an error.
C16_Original ==
    Imported /\ (\E i \in 1..Len(call.docs) :
                    /\ ~UsesBatchPath(call.docs[i])
                    /\ \E j \in 1..Len(call.docs[i].rels) :
                           Dangling(call.docs[i].rels[j]))
        => call.err

\* C16: the document with the relationship to the missing node carol has
\* been imported: the call returned nil, every statement was sent, and the
\* database holds alice and bob and no edge
C16_Skipped ==
    /\ Imported /\ ~call.again /\ call.docs = <<DocDangling>> /\ ~call.err
    /\ Cardinality(engine.nodes) = 2 /\ engine.edges = {}

\* the statements of source attribution: the Chunk table, the MENTIONS
\* table, and the chunk node with its MENTIONS edges
AttributionStmt(stmt) ==
    \/ stmt.kind = "create_node_table" /\ stmt.table = ChunkLabel
    \/ stmt.kind = "create_rel_table" /\ stmt.name = MentionsLabel
    \/ stmt.kind = "merge_mentions"

\* C17: no import call returns an error because a source-attribution
\* statement failed, and a call with IncludeSource off sends no
\* source-attribution statement.
C17_Original ==
    Imported =>
        /\ call.err /\ call.cause \in {"table", "write"} =>
               ~AttributionStmt(engineLog[Len(engineLog)].stmt)
        /\ ~call.includeSource =>
               \A i \in 1..Len(engineLog) : ~AttributionStmt(engineLog[i].stmt)

\* C17: alice -[KNOWS]-> bob imported with IncludeSource off; the engine
\* refused CREATE NODE TABLE Chunk, the call returned the error and the
\* relationship was not written
C17_ChunkTableAborts ==
    /\ call.api = "AddGraphDocument" /\ ~call.again /\ ~call.includeSource
    /\ call.docs = <<DocAliceBob>>
    /\ call.err /\ call.cause = "table"
    /\ engineLog[Len(engineLog)].stmt = ChunkTableItem.stmt
    /\ engine.edges = {}

\* C18: after a RefreshSchema whose catalog query failed, the refresh has
\* returned nil and the snapshot lists every node table and every
\* relationship table of the creation cache.
C18_Original ==
    observed.refreshed /\ observed.catalog.catalogFails =>
        /\ ~observed.err
        /\ \A t \in nodeTables :
              \E i \in 1..Len(structuredSchema.node_types) :
                  structuredSchema.node_types[i].label = t
        /\ \A key \in relTables :
              \E i \in 1..Len(structuredSchema.relationship_types) :
                  structuredSchema.relationship_types[i].name = key

\* C18: SHOW TABLES failed, table_info('Person') failed, and the snapshot
\* built from a cache holding Person and Chunk lists Chunk alone
C18_PersonMissing ==
    /\ observed.refreshed /\ observed.catalog.catalogFails
    /\ nodeTables = {Person, ChunkLabel}
    /\ Len(structuredSchema.node_types) = 1
    /\ structuredSchema.node_types[1].label = ChunkLabel

\* C19: the GetSchemaVersion calls made on one snapshot (since the last
\* refresh) all return the same fingerprint.
C19_Original ==
    \A i, j \in 1..Len(observed.versions) : observed.versions[i] = observed.versions[j]

\* C19: one snapshot, read twice: v10180 and v12100
C19_TwoFingerprints ==
    /\ observed.refreshed
    /\ observed.versions = <<<<"v", 10180>>, <<"v", 12100>>>>

\* C20: for the tables the engine holds, every GetSchema after a
\* RefreshSchema returns the same text, and when the engine answers every
\* catalog query the text has one (:Source)-[:REL]->(:Target) line per
\* relationship table.
C20_Original ==
    /\ \A i, j \in 1..Len(observed.texts) : observed.texts[i] = observed.texts[j]
    /\ observed.catalog = AnswersAll =>
          \A i \in 1..Len(observed.texts) :
              \A t \in engine.rtabs :
                  \E l \in 1..Len(observed.texts[i]) :
                      observed.texts[i][l] =
                          <<"  (:", t.from, ")-[:", t.name, "]->(:", t.to, ")">>

\* C20: the engine answers every catalog query, and two refreshes of the
\* same tables gave two texts with the same lines in another order
C20_Reordered ==
    /\ observed.catalog = AnswersAll
    /\ Len(observed.texts) = 2
    /\ observed.texts[1] # observed.texts[2]
    /\ {observed.texts[1][l] : l \in 1..Len(observed.texts[1])}
         = {observed.texts[2][l] : l \in 1..Len(observed.texts[2])}

(***************************************************************************)
(* Kuzu.Query, step by step.  The call checks the connection and the       *)
(* context, starts the engine call in a goroutine of its own, waits in a   *)
(* select for the context or the engine, and converts the rows.  The       *)
(* context can be cancelled and the engine call can return at any moment;  *)
(* the engine call need not return at all.                                 *)
(***************************************************************************)
\* rows of the result of a query
MaxRows == 1

CtxNotCheckedAtEntry(cancelled) == FALSE

\* Query: select { case <-ctx.Done(): return nil, ctx.Err(); default: }
CtxDoneAtEntry(cancelled) == cancelled

\* Query has not been called
QueryIdle ==
    [pc |-> "idle", engine |-> "none", interrupted |-> FALSE, ret |-> "none",
     contacted |-> FALSE, entryCancelled |-> FALSE, entryConnected |-> FALSE,
     left |-> 0]

queryRest == <<txState, operations, rit, fnRet, ritResult,
               importVars, schemaVars, input>>

\* Query up to the go statement
QueryCall ==
    /\ output.pc = "idle"
    /\ LET entered == [output EXCEPT !.entryCancelled = ctxCancelled,
                                     !.entryConnected = connected]
       IN  IF ~connected
           THEN /\ output' = [entered EXCEPT !.pc = "returned",
                                             !.ret = "ErrConnectionNotInitialized"]
                /\ UNCHANGED engineLog
           ELSE IF CtxDoneAtEntry(ctxCancelled)
           THEN /\ output' = [entered EXCEPT !.pc = "returned", !.ret = "ctx.Err"]
                /\ UNCHANGED engineLog
           ELSE /\ output' = [entered EXCEPT !.pc = "wait", !.engine = "running",
                                             !.contacted = TRUE]
                /\ engineLog' = Append(engineLog,
                                       [stmt |-> "RETURN 1", via |-> "kquery", at |-> 0])
    /\ last' = Call("Query", output'.pc = "returned")
    /\ UNCHANGED <<connected, ctxCancelled, queryRest>>

\* the goroutine: result, err = k.connection.Query(query); close(done)
EngineReturn ==
    /\ output.engine = "running"
    /\ \E o \in {"ok", "fail"} :
          output' = [output EXCEPT !.engine = o, !.left = input.rows]
    /\ UNCHANGED <<txVars, importVars, schemaVars, input>>

\* select: case <-ctx.Done(): k.connection.Interrupt(); return nil, ctx.Err()
QueryWaitCancelled ==
    /\ output.pc = "wait"
    /\ ctxCancelled
    /\ output' = [output EXCEPT !.pc = "returned", !.interrupted = TRUE,
                                !.ret = "ctx.Err"]
    /\ last' = Call("Query", TRUE)
    /\ UNCHANGED <<connected, ctxCancelled, engineLog, queryRest>>

\* select: case <-done; then the engine's error, or on to the rows
QueryWaitDone ==
    /\ output.pc = "wait"
    /\ output.engine \in {"ok", "fail"}
    /\ output' = IF output.engine = "fail"
                 THEN [output EXCEPT !.pc = "returned", !.ret = "ErrQueryExecutionFailed"]
                 ELSE [output EXCEPT !.pc = "convert"]
    /\ last' = Call("Query", output.engine = "fail")
    /\ UNCHANGED <<connected, ctxCancelled, engineLog, queryRest>>

\* convertQueryResult: one turn of for result.HasNext() { select ...; Next() }
QueryConvert ==
    /\ output.pc = "convert"
    /\ output' = IF output.left = 0
                 THEN [output EXCEPT !.pc = "returned", !.ret = "nil"]
                 ELSE IF ctxCancelled
                 THEN [output EXCEPT !.pc = "returned", !.ret = "ctx.Err"]
                 ELSE [output EXCEPT !.left = @ - 1]
    /\ last' = Call("Query", output'.ret = "ctx.Err")
    /\ UNCHANGED <<connected, ctxCancelled, engineLog, queryRest>>

QueryInit ==
    /\ TxInit /\ ImportInit /\ SchemaInit
    /\ input \in {[kind |-> "Query", list |-> <<>>, rows |-> n] : n \in 0..MaxRows}
    /\ output = QueryIdle

QueryNext ==
    \/ QueryCall
    \/ EngineReturn
    \/ QueryWaitCancelled
    \/ QueryWaitDone
    \/ QueryConvert
    \/ CancelCtx
    \/ KuzuClose

QuerySpec == QueryInit /\ [][QueryNext]_vars

\* what C21 says of a Query whose engine call is in flight, and of blocking
InFlightCancellation ==
    /\ output.pc = "returned" /\ output.engine = "running" =>
           output.interrupted /\ output.ret = "ctx.Err"
    /\ output.pc = "wait" /\ output.engine = "running" /\ ctxCancelled =>
           ENABLED QueryWaitCancelled /\ ~ENABLED QueryWaitDone
    /\ output.pc \in {"wait", "convert"} /\ ctxCancelled =>
           ENABLED (QueryWaitCancelled \/ QueryWaitDone \/ QueryConvert)

MaxRetries == 2

\* QueryWithRetry has not been called
RetryIdle ==
    [pc |-> "idle", attempt |-> 0, calls |-> 0, rejected |-> 0,
     lastErr |-> "none", ret |-> "none"]

retryRest == <<txState, operations, rit, fnRet, ritResult,
               nodeTables, relTables, before, call, viaBatch, viaIndividual,
               schemaVars, input>>

\* Kuzu.Reconnect: Close, then connect opens the database again, which
\* succeeds or fails.  A database in memory is a new, empty one; a database
\* on disk is the one that was closed.  The creation cache is left as it is
Reconnect(ok) ==
    /\ connected' = ok
    /\ engine' = IF input.inMemory THEN EmptyEngine ELSE engine

\* for attempt := 0; attempt <= maxRetries; attempt++: the loop is entered
\* or left
RetryLoop(o) ==
    IF o.attempt <= input.maxRetries THEN [o EXCEPT !.pc = "query"]
    ELSE [o EXCEPT !.pc = "returned", !.ret = "query failed after attempts"]

\* QueryWithRetry is called
RetryCall ==
    /\ output.pc = "idle"
    /\ output' = RetryLoop(output)
    /\ UNCHANGED <<txVars, importVars, schemaVars, input>>

\* result, err := k.Query(ctx, query, params)
RetryQuery ==
    /\ output.pc = "query"
    /\ LET r == KQuery(connected, ctxCancelled,
                       IF input.rejects THEN "fail" ELSE "ok")
           err == IF ~r.err THEN "nil"
                  ELSE IF ~connected THEN "ErrConnectionNotInitialized"
                  ELSE IF ~r.contacted THEN "ctx.Err"
                  ELSE "ErrQueryExecutionFailed"
           counted == [output EXCEPT !.calls = @ + 1,
                                     !.rejected = IF r.contacted /\ r.err
                                                  THEN @ + 1 ELSE @]
       IN  /\ output' =
                 IF err = "nil"
                 THEN [counted EXCEPT !.pc = "returned", !.ret = "nil"]
                 ELSE [counted EXCEPT !.lastErr = err,
                          !.pc = IF err = "ErrConnectionNotInitialized"
                                 THEN "reconnect" ELSE "wait"]
           /\ engineLog' = Sent(engineLog, r, "RETURN 1", "kquery", <<>>)
           /\ last' = Call("Query", r.err)
    /\ UNCHANGED <<connected, ctxCancelled, engine, retryRest>>

\* if reconnectErr := k.Reconnect(); reconnectErr != nil { ...; continue }
RetryReconnect ==
    /\ output.pc = "reconnect"
    /\ \E ok \in BOOLEAN :
          /\ Reconnect(ok)
          /\ output' = IF ok THEN [output EXCEPT !.pc = "wait"]
                       ELSE RetryLoop([output EXCEPT !.attempt = @ + 1,
                                                     !.lastErr = "reconnection failed"])
    /\ last' = Call("Reconnect", ~connected')
    /\ UNCHANGED <<ctxCancelled, engineLog, retryRest>>

\* if attempt < maxRetries { select { case <-ctx.Done(): ...; case <-time.After(...): } }
RetryWait ==
    /\ output.pc = "wait"
    /\ output' = IF output.attempt < input.maxRetries /\ ctxCancelled
                 THEN [output EXCEPT !.pc = "returned", !.ret = "ctx.Err"]
                 ELSE RetryLoop([output EXCEPT !.attempt = @ + 1])
    /\ UNCHANGED <<txVars, importVars, schemaVars, input>>

RetryInit ==
    /\ TxInit /\ ImportInit /\ SchemaInit
    /\ input \in {[kind |-> "QueryWithRetry", list |-> <<>>,
                   maxRetries |-> n, rejects |-> b, inMemory |-> m] :
                     n \in 0..MaxRetries, b \in BOOLEAN, m \in BOOLEAN}
    /\ output = RetryIdle

RetryNext ==
    \/ RetryCall
    \/ RetryQuery
    \/ RetryReconnect
    \/ RetryWait
    \/ CancelCtx
    \/ KuzuClose

RetrySpec == RetryInit /\ [][RetryNext]_vars

\* C22: a statement the engine rejects is executed once: after the engine
\* has rejected it, QueryWithRetry does not send it again.
C22_Original == input.rejects => output.rejected <= 1

\* C22: QueryWithRetry(ctx, q, nil, 1) of a statement the engine rejects has
\* returned, and the engine has rejected the statement twice
C22_Retried ==
    /\ input.rejects /\ input.maxRetries = 1
    /\ output.pc = "returned" /\ output.ret = "query failed after attempts"
    /\ output.rejected = 2

(***************************************************************************)
(* TypeConverter: ConvertGoValueToKuzu and ConvertKuzuValueToGo on the     *)
(* primitive values.  A Go value is its dynamic type and its payload.  A   *)
(* value is drawn, converted, and the result converted back under the type *)
(* tag the first conversion returned.                                      *)
(***************************************************************************)
\* largest number among the drawn values
MaxNumber == 1

Go(t, x) == [t |-> t, x |-> x]
GoNil == Go("nil", 0)

SignedTypes == {"int", "int8", "int16", "int32", "int64"}
UnsignedTypes == {"uint", "uint8", "uint16", "uint32", "uint64"}
FloatTypes == {"float32", "float64"}

\* the layouts a converter is configured with: "2006-01-02", the default
\* DateFormat, and time.RFC3339, the default TimestampFormat
DateOnly == "2006-01-02"
RFC3339 == "2006-01-02T15:04:05Z07:00"

\* NewTypeConverter()
NewTypeConverter ==
    [StrictMode |-> FALSE, DateFormat |-> DateOnly, TimestampFormat |-> RFC3339]

\* the strings of the pool that time.Parse accepts under "2006-01-02" and
\* under time.RFC3339
DateStrings == {"2024-01-15"}
TimestampStrings == {"2024-01-15T10:00:00Z", "2024-01-15T10:00:00+00:00"}

\* time.Parse(layout, s) succeeds
Parses(layout, s) ==
    \/ layout = DateOnly /\ s \in DateStrings
    \/ layout = RFC3339 /\ s \in TimestampStrings

\* time.Parse(layout, s) formatted under the same layout again: a zero
\* offset is written as Z
Reformatted(layout, s) ==
    IF layout = RFC3339 /\ s = "2024-01-15T10:00:00+00:00"
    THEN "2024-01-15T10:00:00Z" ELSE s

\* isDateString / isTimestampString
isDateString(tc, s) == Parses(tc.DateFormat, s)
isTimestampString(tc, s) == Parses(tc.TimestampFormat, s)

\* the primitive values: nil, the booleans, numbers of every integer and
\* float type, plain strings and strings that read as a date or a timestamp
\* (none that reads as JSON)
Primitives ==
    {GoNil} \cup {Go("bool", b) : b \in BOOLEAN}
    \cup {Go(t, n) : t \in SignedTypes, n \in (0 - MaxNumber)..MaxNumber}
    \cup {Go(t, n) : t \in UnsignedTypes \cup FloatTypes, n \in 0..MaxNumber}
    \cup {Go("string", s) : s \in {"", "test", "2024-01-15", "2024-01-15T10:00:00Z"}}

\* the KuzuDataType of a Go number type
KuzuTypeOf(t) ==
    CASE t \in {"int", "int64"} -> "INT64"
      [] t = "int8" -> "INT8"
      [] t = "int16" -> "INT16"
      [] t = "int32" -> "INT32"
      [] t \in {"uint", "uint64"} -> "UINT64"
      [] t = "uint8" -> "UINT8"
      [] t = "uint16" -> "UINT16"
      [] t = "uint32" -> "UINT32"
      [] t = "float32" -> "FLOAT"
      [] t = "float64" -> "DOUBLE"

Converted(value, dataType) == [value |-> value, type |-> dataType, err |-> FALSE]

ConvertFailed == [value |-> GoNil, type |-> "", err |-> TRUE]

\* the strings of the pool that json.Unmarshal accepts, with the value it
\* decodes: an object is a map[string]interface{}, an array a
\* []interface{}, a number a float64.  White space around the text is
\* accepted.
JsonDecoded ==
    LET one == Go("float64", 1)
        mixed == Go("slice", <<one, Go("string", "x")>>)
    IN [s \in {"{\"a\":1}", "[1,\"x\"]", "[\"2024-01-15\"]", "{\"a\":[1,\"x\"]}",
                "[1,\"x\"]\n"} |->
          CASE s = "{\"a\":1}" -> Go("map", {[key |-> "a", value |-> one]})
            [] s = "[\"2024-01-15\"]" -> Go("slice", <<Go("string", "2024-01-15")>>)
            [] s = "{\"a\":[1,\"x\"]}" -> Go("map", {[key |-> "a", value |-> mixed]})
            [] OTHER -> mixed]

\* isJSONString: the strings of the pool that begin with { and end with },
\* or begin with [ and end with ]
isJSONString(s) ==
    s \in {"{\"a\":1}", "[1,\"x\"]", "[\"2024-01-15\"]", "{\"a\":[1,\"x\"]}", "{bad}"}

RECURSIVE ConvertGoValueToKuzu(_, _)

\* a convertString that tries the timestamp layout before the date layout
convertStringTimestampFirst(tc, s) ==
    IF isTimestampString(tc, s)
    THEN Converted(Go("string", Reformatted(tc.TimestampFormat, s)), "TIMESTAMP")
    ELSE IF isDateString(tc, s)
    THEN Converted(Go("string", Reformatted(tc.DateFormat, s)), "DATE")
    ELSE IF isJSONString(s) /\ s \in DOMAIN JsonDecoded
    THEN ConvertGoValueToKuzu(tc, JsonDecoded[s])
    ELSE Converted(Go("string", s), "STRING")

\* convertString: a date or a timestamp is parsed and formatted again; a
\* bracketed string that decodes as JSON is converted as the decoded value;
\* any other string stays
convertString(tc, s) ==
    IF isDateString(tc, s)
    THEN Converted(Go("string", Reformatted(tc.DateFormat, s)), "DATE")
    ELSE IF isTimestampString(tc, s)
    THEN Converted(Go("string", Reformatted(tc.TimestampFormat, s)), "TIMESTAMP")
    ELSE IF isJSONString(s) /\ s \in DOMAIN JsonDecoded
    THEN ConvertGoValueToKuzu(tc, JsonDecoded[s])
    ELSE Converted(Go("string", s), "STRING")

\* a convertSlice that never compares the types of the elements
convertSliceUnchecked(tc, slice) ==
    LET conv == [i \in 1..Len(slice) |-> ConvertGoValueToKuzu(tc, slice[i])]
    IN IF \E i \in 1..Len(slice) : conv[i].err THEN ConvertFailed
       ELSE Converted(Go("slice", [i \in 1..Len(slice) |-> conv[i].value]), "LIST")

\* convertSlice: the elements are converted in order; an element that fails,
\* or in strict mode an element whose type is not the type of the first,
\* fails the conversion
convertSlice(tc, slice) ==
    LET conv == [i \in 1..Len(slice) |-> ConvertGoValueToKuzu(tc, slice[i])]
        stops(i) == \/ conv[i].err
                    \/ i > 1 /\ conv[1].type # conv[i].type /\ tc.StrictMode
    IN IF \E i \in 1..Len(slice) : stops(i) THEN ConvertFailed
       ELSE Converted(Go("slice", [i \in 1..Len(slice) |-> conv[i].value]), "LIST")

\* convertMap: every value is converted; one that fails fails the conversion
convertMap(tc, entries) ==
    LET conv(e) == ConvertGoValueToKuzu(tc, e.value)
    IN IF \E e \in entries : conv(e).err THEN ConvertFailed
       ELSE Converted(Go("map", {[key |-> e.key, value |-> conv(e).value] : e \in entries}),
                      "STRUCT")

\* ConvertGoValueToKuzu
ConvertGoValueToKuzu(tc, value) ==
    CASE value.t = "nil" -> Converted(GoNil, "STRING")
      [] value.t = "string" -> convertString(tc, value.x)
      [] value.t = "bool" -> Converted(value, "BOOL")
      [] value.t = "int" -> Converted(Go("int64", value.x), "INT64")
      [] value.t = "uint" -> Converted(Go("uint64", value.x), "UINT64")
      [] value.t = "slice" -> convertSlice(tc, value.x)
      [] value.t = "map" -> convertMap(tc, value.x)
      [] OTHER -> Converted(value, KuzuTypeOf(value.t))

Back(value) == [value |-> value, err |-> FALSE]
CannotConvert == [value |-> GoNil, err |-> TRUE]

\* int8(v), int16(v), int32(v) of an int64: the low bits, as a signed number
Narrow(v, bits) == ((v + 2 ^ (bits - 1)) % (2 ^ bits)) - 2 ^ (bits - 1)

\* convertKuzuInt: an int64 is narrowed to the width of the tag; a value of
\* another integer type is refused
convertKuzuInt(value, dataType) ==
    IF value.t = "int64"
    THEN CASE dataType = "INT8" -> Back(Go("int8", Narrow(value.x, 8)))
           [] dataType = "INT16" -> Back(Go("int16", Narrow(value.x, 16)))
           [] dataType = "INT32" -> Back(Go("int32", Narrow(value.x, 32)))
           [] OTHER -> Back(value)
    ELSE IF value.t = "float64" THEN Back(Go("int64", value.x))
    ELSE CannotConvert

\* convertKuzuUint
convertKuzuUint(value, dataType) ==
    IF value.t = "uint64"
    THEN CASE dataType = "UINT8" -> Back(Go("uint8", value.x % 2 ^ 8))
           [] dataType = "UINT16" -> Back(Go("uint16", value.x % 2 ^ 16))
           [] dataType = "UINT32" -> Back(Go("uint32", value.x % 2 ^ 32))
           [] OTHER -> Back(value)
    ELSE IF value.t \in {"int64", "float64"} THEN Back(Go("uint64", value.x % 2 ^ 64))
    ELSE CannotConvert

\* convertKuzuFloat
convertKuzuFloat(value, dataType) ==
    IF value.t \in {"float64", "int64"}
    THEN Back(Go(IF dataType = "FLOAT" THEN "float32" ELSE "float64", value.x))
    ELSE CannotConvert

\* convertKuzuBool
convertKuzuBool(value) ==
    CASE value.t = "bool" -> Back(value)
      [] value.t = "int64" -> Back(Go("bool", value.x # 0))
      [] OTHER -> CannotConvert

\* convertKuzuString: a string stays (a value of another type is formatted)
convertKuzuString(value) ==
    IF value.t = "string" THEN Back(value) ELSE Back(Go("string", ToString(value.x)))

\* convertKuzuDate / convertKuzuTimestamp: a string is parsed into a
\* time.Time
convertKuzuTime(value) ==
    IF value.t = "string" THEN Back(Go("time.Time", value.x))
    ELSE IF value.t = "time.Time" THEN Back(value)
    ELSE CannotConvert

\* ConvertKuzuValueToGo
ConvertKuzuValueToGo(value, dataType) ==
    IF value.t = "nil" THEN Back(GoNil)
    ELSE CASE dataType = "STRING" -> convertKuzuString(value)
           [] dataType = "BOOL" -> convertKuzuBool(value)
           [] dataType \in {"INT8", "INT16", "INT32", "INT64"} ->
                convertKuzuInt(value, dataType)
           [] dataType \in {"UINT8", "UINT16", "UINT32", "UINT64"} ->
                convertKuzuUint(value, dataType)
           [] dataType \in {"FLOAT", "DOUBLE"} -> convertKuzuFloat(value, dataType)
           [] dataType \in {"DATE", "TIMESTAMP"} -> convertKuzuTime(value)
           [] OTHER -> Back(value)

\* converter.ConvertGoValueToKuzu(value)
ToKuzu ==
    /\ input.kind = "convert" /\ output.stage = 0
    /\ output' = [output EXCEPT !.stage = 1, !.once = ConvertGoValueToKuzu(NewTypeConverter, input.value)]
    /\ UNCHANGED <<otherVars, input>>

\* converter.ConvertKuzuValueToGo(converted, dataType)
ToGo ==
    /\ input.kind = "convert" /\ output.stage = 1 /\ ~output.once.err
    /\ output' = [output EXCEPT !.stage = 2,
                     !.twice = ConvertKuzuValueToGo(output.once.value, output.once.type)]
    /\ UNCHANGED <<otherVars, input>>

ConvertInit ==
    /\ TxInit /\ ImportInit /\ SchemaInit
    /\ input \in {[kind |-> "convert", list |-> <<>>, value |-> v] : v \in Primitives}
    /\ output = NoOutput

ConvertNext == ToKuzu \/ ToGo

ConvertSpec == ConvertInit /\ [][ConvertNext]_vars

\* the value with an untyped int or uint widened to 64 bits
Widened(v) ==
    CASE v.t = "int" -> Go("int64", v.x)
      [] v.t = "uint" -> Go("uint64", v.x)
      [] OTHER -> v

\* C23: for every primitive value, the conversion to the engine succeeds,
\* and the conversion back under the returned type tag succeeds and gives
\* the value again, an int or uint widened to 64 bits.
C23_Original ==
    input.kind = "convert" =>
        /\ output.stage >= 1 => ~output.once.err
        /\ output.stage = 2 =>
              ~output.twice.err /\ output.twice.value = Widened(input.value)

\* C23: int8(1) came back from the round trip as an error
C23_Int8Refused ==
    /\ input.kind = "convert" /\ input.value = Go("int8", 1)
    /\ output.stage = 2 /\ output.once.type = "INT8" /\ output.twice.err

\* C24: every statement an AddGraphDocumentsWithTransaction call sends to
\* the engine, the statements that create tables included, goes through the
\* transaction handle; none is sent on the bare connection.
C24_Original ==
    call.api = "AddGraphDocumentsWithTransaction" =>
        \A i \in 1..Len(engineLog) : engineLog[i].via = "query"

\* C24: a call on an active handle has sent CREATE NODE TABLE on the bare
\* connection and then a data statement through the handle
C24_TableOnConnection ==
    /\ call.api = "AddGraphDocumentsWithTransaction" /\ ~call.err
    /\ \E i, j \in 1..Len(engineLog) :
          /\ i < j
          /\ engineLog[i].via = "conn"
          /\ engineLog[j].via = "query"

(***************************************************************************)
(* A transaction opened with WithTransactionTimeout, and the passing of    *)
(* time.  input.timeout is the configured timeout, output.now the time     *)
(* since BeginTransaction, both in milliseconds; output.deadline is the    *)
(* deadline of the transaction's context, output.at the time of the last   *)
(* Query through the handle and output.sent whether it reached the engine. *)
(***************************************************************************)
MaxTimeout == 2
\* time stops this long after the longest timeout
MaxLate == 1

\* a context without a deadline
NoDeadline == 0

\* BeginTransaction: txCtx, cancelFunc := context.WithCancel(ctx).  The
\* timeout is stored in the TransactionConfig and read nowhere
TxDeadline(timeout) == NoDeadline

\* the context's deadline has passed
DeadlinePassed(deadline, now) == deadline # NoDeadline /\ now >= deadline

Clock == [now |-> 0, deadline |-> NoDeadline, at |-> 0, sent |-> FALSE]

\* BeginTransaction(ctx, WithTransactionTimeout(input.timeout))
TimedBegin ==
    /\ input.kind = "timeout"
    /\ txState = TransactionIdle /\ connected
    /\ \E readOnly \in BOOLEAN : BeginEffect(readOnly, "ok")
    /\ output' = [Clock EXCEPT !.deadline = TxDeadline(input.timeout)]
    /\ UNCHANGED <<connected, rit, fnRet, ritResult, importVars, schemaVars, input>>

\* a millisecond passes; a context whose deadline has come is done
Tick ==
    /\ input.kind = "timeout"
    /\ txState # TransactionIdle
    /\ output.now < MaxTimeout + MaxLate
    /\ output' = [output EXCEPT !.now = @ + 1]
    /\ ctxCancelled' = (ctxCancelled \/ DeadlinePassed(output.deadline, output.now + 1))
    /\ UNCHANGED <<connected, txState, operations, engineLog, last, rit, fnRet,
                   ritResult, importVars, schemaVars, input>>

\* tx.Query
TimedQuery ==
    /\ input.kind = "timeout"
    /\ txState # TransactionIdle
    /\ IsActive(txState) /\ ~ctxCancelled => Len(operations) < MaxOps
    /\ \E q \in Stmts, o \in {"ok", "fail"} : QueryEffect(q, o)
    /\ output' = [output EXCEPT !.at = output.now,
                                !.sent = Len(engineLog') > Len(engineLog)]
    /\ UNCHANGED <<connected, rit, fnRet, ritResult, importVars, schemaVars, input>>

TimeoutInit ==
    /\ TxInit /\ ImportInit /\ SchemaInit
    /\ input \in {[kind |-> "timeout", list |-> <<>>, timeout |-> n] : n \in 1..MaxTimeout}
    /\ output = Clock

TimeoutNext == TimedBegin \/ Tick \/ TimedQuery \/ CancelCtx \/ KuzuClose

TimeoutSpec == TimeoutInit /\ [][TimeoutNext]_vars

\* C26: a query made through the handle once the configured timeout has
\* elapsed since BeginTransaction is not executed and returns an error.
C26_Original ==
    input.kind = "timeout" /\ last.op = "Query" /\ output.at >= input.timeout
        => ~output.sent /\ last.err

\* C26: with a timeout of 1 ms, a query made 2 ms after BeginTransaction
\* reached the engine and returned without error
C26_LateQueryExecuted ==
    /\ input.kind = "timeout" /\ input.timeout = 1
    /\ last = Call("Query", FALSE)
    /\ output.at = 2 /\ output.sent
    /\ txState = TransactionActive /\ ~ctxCancelled

(***************************************************************************)
(* The same documents and options imported without and within a            *)
(* transaction, each on a fresh store where every statement the engine     *)
(* accepts succeeds.  output.plain and output.tx hold what each import     *)
(* returned, the data statements it sent, in order, and the database it    *)
(* left.                                                                   *)
(***************************************************************************)
NotImported == [ran |-> FALSE, err |-> FALSE, data |-> <<>>, eng |-> EmptyEngine]

\* the data statements among the statements a call sent to the engine
DataStatements(log) ==
    LET sent == SelectSeq(log, LAMBDA e : e.via \in {"kquery", "query"})
    IN [i \in 1..Len(sent) |-> sent[i].stmt]

ImportedAs(st) ==
    [ran |-> TRUE, err |-> st.err, data |-> DataStatements(st.h.log), eng |-> st.eng]

\* AddGraphDocument(ctx, docs, options) on a fresh store
ImportPlain ==
    /\ input.kind = "parity" /\ ~output.plain.ran
    /\ output' = [output EXCEPT !.plain =
                     ImportedAs(RunPlan(AddGraphDocumentPlan(input.list, input.includeSource),
                                        FreshStore(FALSE), "conn", 0))]
    /\ UNCHANGED <<otherVars, input>>

\* AddGraphDocumentsWithTransaction(tx, docs, options) on a fresh store and
\* a handle just begun
ImportInTransaction ==
    /\ input.kind = "parity" /\ ~output.tx.ran
    /\ output' = [output EXCEPT !.tx =
                     ImportedAs(RunPlan(addGraphDocumentsInTransaction(input.list),
                                        FreshStore(TRUE), "tx", 0))]
    /\ UNCHANGED <<otherVars, input>>

ParityInit ==
    /\ TxInit /\ ImportInit /\ SchemaInit
    /\ input \in {[kind |-> "parity", list |-> docs, includeSource |-> src] :
                     docs \in Inputs \ {<<>>}, src \in BOOLEAN}
    /\ output = [plain |-> NotImported, tx |-> NotImported]

ParityNext == ImportPlain \/ ImportInTransaction

ParitySpec == ParityInit /\ [][ParityNext]_vars

\* C25: for the same documents and options, when both imports succeed, the
\* import within a transaction has sent the same data statements with the
\* same parameters, in the same order, as the import without, and has left
\* the same database.
C25_Original ==
    input.kind = "parity" /\ output.plain.ran /\ output.tx.ran
    /\ ~output.plain.err /\ ~output.tx.err
        => /\ output.tx.data = output.plain.data
           /\ output.tx.eng = output.plain.eng

\* C25: one small document with a JSON-valued property, no source link
\* asked for: both imports succeeded with as many data statements, and the
\* parameters and the databases differ
C25_ParametersDiffer ==
    /\ input.kind = "parity" /\ input.list = <<DocProps>> /\ ~input.includeSource
    /\ output.plain.ran /\ output.tx.ran
    /\ ~output.plain.err /\ ~output.tx.err
    /\ Len(output.tx.data) = Len(output.plain.data)
    /\ output.tx.data # output.plain.data
    /\ output.tx.eng # output.plain.eng

\* the statement was sent to create a table
IsTableCreation(e) == e.via = "conn"

\* the statement was sent to write data
IsDataWrite(e) == e.via \in {"kquery", "query"}

\* C27: in an import call, every table the input needs is created before
\* the first data statement: no table-creation statement follows a data
\* statement of the call.
C27_Original ==
    Imported =>
        \A i, j \in 1..Len(engineLog) :
            i < j /\ IsDataWrite(engineLog[i]) => ~IsTableCreation(engineLog[j])

\* C27: AddGraphDocument of <<alice knows bob, alice knows acme>> on a fresh
\* store creates the Company table after the data of the first document is
\* written
C27_CompanyAfterData ==
    /\ call.api = "AddGraphDocument" /\ call.docs = <<DocAliceBob, DocTwoTypes>>
    /\ call.cache.node = {}
    /\ \E i, j \in 1..Len(engineLog) :
          /\ i < j
          /\ IsDataWrite(engineLog[i])
          /\ engineLog[j].stmt = NodeTableItem(Company).stmt

\* the ids of the nodes a call has sent to the engine, in order
RECURSIVE NodeIdsSent(_)
NodeIdsSent(log) ==
    IF log = <<>> THEN <<>>
    ELSE (IF IsDataWrite(Head(log)) /\ Head(log).stmt.kind = "merge_node"
          THEN [i \in 1..Len(Head(log).stmt.rows) |-> Head(log).stmt.rows[i].id]
          ELSE <<>>)
         \o NodeIdsSent(Tail(log))

\* the keys (source id, relationship type, target id) of the relationships
\* a call has sent to the engine, in order
RECURSIVE RelKeysSent(_)
RelKeysSent(log) ==
    IF log = <<>> THEN <<>>
    ELSE (IF IsDataWrite(Head(log)) /\ Head(log).stmt.kind = "merge_rel"
          THEN [i \in 1..Len(Head(log).stmt.rows) |->
                  <<Head(log).stmt.rows[i].source_id, Head(log).stmt.name,
                    Head(log).stmt.rows[i].target_id>>]
          ELSE <<>>)
         \o RelKeysSent(Tail(log))

NoRepeat(s) == \A i, j \in 1..Len(s) : s[i] = s[j] => i = j

\* C28: an import call of one document sends each node id and each
\* relationship key of the document to the engine at most once.
C28_Original ==
    Imported /\ Len(call.docs) = 1 =>
        NoRepeat(NodeIdsSent(engineLog)) /\ NoRepeat(RelKeysSent(engineLog))

\* C28: a successful import of the document that names alice twice has
\* sent two statements for the node alice
C28_AliceTwice ==
    /\ Imported /\ ~call.err /\ call.docs = <<DocRepeated>>
    /\ NodeIdsSent(engineLog) = <<"alice", "alice">>

\* C29: after a RefreshSchema whose catalog query succeeded, every
\* relationship table of the engine is in relationship_types with its
\* endpoint types and in no node_types entry, and every node table of the
\* engine is in node_types with its declared properties.
C29_Original ==
    observed.refreshed /\ ~observed.catalog.catalogFails =>
        /\ \A r \in engine.rtabs :
              /\ \E i \in 1..Len(structuredSchema.relationship_types) :
                    /\ structuredSchema.relationship_types[i].name = r.name
                    /\ structuredSchema.relationship_types[i].source_type = r.from
                    /\ structuredSchema.relationship_types[i].target_type = r.to
              /\ \A i \in 1..Len(structuredSchema.node_types) :
                    structuredSchema.node_types[i].label # r.name
        /\ \A t \in engine.ntabs :
              \E i \in 1..Len(structuredSchema.node_types) :
                  /\ structuredSchema.node_types[i].label = t
                  /\ structuredSchema.node_types[i].properties = ColumnsOf(t)

\* C29: the catalog query succeeded and so did every table_info query; the
\* engine has the relationship table KNOWS, and the snapshot lists KNOWS
\* among the node types and has no relationship type
C29_KnowsAsNodeType ==
    /\ observed.refreshed /\ ~observed.err
    /\ ~observed.catalog.catalogFails /\ observed.catalog.columns
    /\ observed.catalog.infoFails = {}
    /\ \E r \in engine.rtabs : r.name = Knows
    /\ \E i \in 1..Len(structuredSchema.node_types) :
          structuredSchema.node_types[i].label = Knows
    /\ structuredSchema.relationship_types = <<>>

(***************************************************************************)
(* The two locks of the store.  Goroutines call RefreshSchema, GetSchema,  *)
(* GetStructuredSchema, GetSchemaVersion, CompareSchemas,                  *)
(* GetImportStatistics and createNodeTable, one step at a time.            *)
(* callers[g].pc is the step goroutine g is about to take.  output holds   *)
(* schemaMux (the goroutine holding it exclusively, 0 for none, and the    *)
(* goroutines holding it shared), the goroutines holding tablesMux shared, *)
(* and the snapshot each CompareSchemas call has put aside.                *)
(***************************************************************************)
Unlocked == [writer |-> 0, readers |-> {}]

NoLocks ==
    [schemaMux |-> Unlocked, tableReaders |-> {},
     saved |-> [g \in Goroutines |-> NoSchema]]

\* sync.RWMutex: Lock returns when no goroutine holds the mutex, RLock when
\* none holds it exclusively
CanLock(mux) == mux.writer = 0 /\ mux.readers = {}
CanRLock(mux) == mux.writer = 0

At(g, pc) == [callers EXCEPT ![g] = [pc |-> pc, item |-> [k |-> "none"], sent |-> FALSE]]

lockRest == <<txVars, importVars, tablesMux, executed, observed, input>>

\* createNodeTable("Person"): k.tablesMux.Lock() waits for the shared
\* holders too
TableCreateEnter(g) == CreateEnter(g) /\ callers'[g].item = NodeTableItem(Person)
TableCreateLock(g) == output.tableReaders = {} /\ CreateLock(g)

\* RefreshSchema: k.schemaMux.Lock()
RefreshLock(g) ==
    /\ callers[g].pc = "idle" /\ connected
    /\ CanLock(output.schemaMux)
    /\ output' = [output EXCEPT !.schemaMux.writer = g]
    /\ callers' = At(g, "refresh_write")
    /\ UNCHANGED <<lockRest, structuredSchema, schemaCache>>

\* the snapshot introspectSchema builds when the engine answers
IntrospectedSchemas ==
    LET maps == introspectSchema(observed.catalog)
    IN {updateStructuredSchema(nodeOrder, relOrder) :
           nodeOrder \in Orderings(maps.nodeTables),
           relOrder \in Orderings(maps.relTables)}

\* RefreshSchema: k.introspectSchema(); k.buildSchemaDescription()
RefreshWrite(g) ==
    /\ callers[g].pc = "refresh_write"
    /\ \E schema \in IntrospectedSchemas :
          /\ structuredSchema' = schema
          /\ schemaCache' = buildSchemaDescription(schema)
    /\ callers' = At(g, "refresh_unlock")
    /\ UNCHANGED <<lockRest, output>>

\* RefreshSchema: defer k.schemaMux.Unlock()
RefreshUnlock(g) ==
    /\ callers[g].pc = "refresh_unlock"
    /\ output' = [output EXCEPT !.schemaMux.writer = 0]
    /\ callers' = At(g, "idle")
    /\ UNCHANGED <<lockRest, structuredSchema, schemaCache>>

SchemaReaders == {"GetSchema", "GetStructuredSchema", "GetSchemaVersion"}

\* GetSchema, GetStructuredSchema, GetSchemaVersion: k.schemaMux.RLock()
ReadLock(g) ==
    /\ callers[g].pc = "idle"
    /\ CanRLock(output.schemaMux)
    /\ output' = [output EXCEPT !.schemaMux.readers = @ \cup {g}]
    /\ \E op \in SchemaReaders :
          callers' = [callers EXCEPT ![g] = [pc |-> "read", item |-> [k |-> op],
                                             sent |-> FALSE]]
    /\ UNCHANGED <<lockRest, structuredSchema, schemaCache>>

\* the read of k.schemaCache or k.structuredSchema, and the deferred
\* k.schemaMux.RUnlock()
ReadUnlock(g) ==
    /\ callers[g].pc = "read"
    /\ output' = [output EXCEPT !.schemaMux.readers = @ \ {g}]
    /\ callers' = At(g, "idle")
    /\ UNCHANGED <<lockRest, structuredSchema, schemaCache>>

\* GetImportStatistics: k.tablesMux.RLock()
StatsLock(g) ==
    /\ callers[g].pc = "idle"
    /\ MutexFree(tablesMux)
    /\ output' = [output EXCEPT !.tableReaders = @ \cup {g}]
    /\ callers' = At(g, "stats")
    /\ UNCHANGED <<lockRest, structuredSchema, schemaCache>>

\* GetImportStatistics: the reads of k.nodeTables and k.relTables, and the
\* deferred k.tablesMux.RUnlock()
StatsUnlock(g) ==
    /\ callers[g].pc = "stats"
    /\ output' = [output EXCEPT !.tableReaders = @ \ {g}]
    /\ callers' = At(g, "idle")
    /\ UNCHANGED <<lockRest, structuredSchema, schemaCache>>

\* a goroutine calls CompareSchemas, which takes no lock
CompareCall(g) ==
    /\ callers[g].pc = "idle" /\ connected
    /\ callers' = At(g, "compare_read")
    /\ UNCHANGED <<lockRest, structuredSchema, schemaCache, output>>

\* CompareSchemas: currentSchema := k.structuredSchema
CompareRead(g) ==
    /\ callers[g].pc = "compare_read"
    /\ output' = [output EXCEPT !.saved[g] = structuredSchema]
    /\ callers' = At(g, "compare_introspect")
    /\ UNCHANGED <<lockRest, structuredSchema, schemaCache>>

\* CompareSchemas: k.introspectSchema()
CompareIntrospect(g) ==
    /\ callers[g].pc = "compare_introspect"
    /\ structuredSchema' \in IntrospectedSchemas
    /\ callers' = At(g, "compare_restore")
    /\ UNCHANGED <<lockRest, schemaCache, output>>

\* CompareSchemas: when the two maps have as many keys,
\* k.structuredSchema = currentSchema
CompareRestore(g) ==
    /\ callers[g].pc = "compare_restore"
    /\ structuredSchema' =
          IF Cardinality(output.saved[g].keys) # Cardinality(structuredSchema.keys)
          THEN structuredSchema
          ELSE output.saved[g]
    /\ output' = [output EXCEPT !.saved[g] = NoSchema]
    /\ callers' = At(g, "idle")
    /\ UNCHANGED <<lockRest, schemaCache>>

LockInit ==
    /\ TxInit /\ ImportInit /\ SchemaInit
    /\ input = NoInput
    /\ output = NoLocks

LockNext ==
    \E g \in Goroutines :
        \/ TableCreateEnter(g)
        \/ TableCreateLock(g)
        \/ CreateQuery(g)
        \/ CreateMark(g)
        \/ CreateUnlock(g)
        \/ RefreshLock(g)
        \/ RefreshWrite(g)
        \/ RefreshUnlock(g)
        \/ ReadLock(g)
        \/ ReadUnlock(g)
        \/ StatsLock(g)
        \/ StatsUnlock(g)
        \/ CompareCall(g)
        \/ CompareRead(g)
        \/ CompareIntrospect(g)
        \/ CompareRestore(g)

LockSpec == LockInit /\ [][LockNext]_vars

\* the step goroutine g is about to take writes, or reads, the structured
\* snapshot or the schema text
WritesSnapshot(g) ==
    callers[g].pc \in {"refresh_write", "compare_introspect", "compare_restore"}
ReadsSnapshot(g) == callers[g].pc \in {"read", "compare_read"}

\* the step goroutine g is about to take writes, or reads, the creation cache
WritesCache(g) == callers[g].pc = "mark"
ReadsCache(g) == callers[g].pc = "stats"

\* C30: a goroutine about to write the creation cache or the snapshot holds
\* the lock of that state exclusively, a goroutine about to read it holds
\* the lock at least shared, and no access is due together with a write of
\* the same state by another goroutine.
C30_Original ==
    /\ \A g \in Goroutines :
          /\ WritesSnapshot(g) => output.schemaMux.writer = g
          /\ ReadsSnapshot(g) =>
                g \in output.schemaMux.readers \/ output.schemaMux.writer = g
          /\ WritesCache(g) => tablesMux = g
          /\ ReadsCache(g) => g \in output.tableReaders \/ tablesMux = g
    /\ \A g, h \in Goroutines :
          g # h =>
            /\ ~(WritesSnapshot(g) /\ (WritesSnapshot(h) \/ ReadsSnapshot(h)))
            /\ ~(WritesCache(g) /\ (WritesCache(h) \/ ReadsCache(h)))

\* C30: goroutine 1 is in CompareSchemas, about to write the snapshot and
\* holding no lock, while goroutine 2 reads the snapshot in GetSchemaVersion
\* under the shared lock
C30_CompareUnlocked ==
    /\ callers[1].pc = "compare_introspect"
    /\ output.schemaMux.writer = 0 /\ output.schemaMux.readers = {2}
    /\ callers[2].pc = "read" /\ callers[2].item.k = "GetSchemaVersion"

(***************************************************************************)
(* Kuzu.Query called by several goroutines at once, each directly or       *)
(* through a transaction handle of its own (Transaction.Query passes the   *)
(* statement and the handle's context to Kuzu.Query).  output[g] is the    *)
(* call of goroutine g: where the caller stands, what the goroutine that   *)
(* Query started for k.connection.Query is doing, and whether the context  *)
(* of the call is cancelled.  A goroutine calls again only when the engine *)
(* call of its previous Query has returned.                                *)
(***************************************************************************)
NotCalling ==
    [pc |-> "idle", engine |-> "none", via |-> "none", cancelled |-> FALSE,
     interrupted |-> FALSE]

\* engine calls in flight on k.connection
InFlight == {g \in Goroutines : output[g].engine = "running"}

\* Kuzu.Query takes no lock before it starts the engine call
ConnectionFree(inFlight) == TRUE

\* Kuzu.Query / Transaction.Query up to the go statement
ParallelCall(g) ==
    /\ input.kind = "parallel"
    /\ output[g].pc = "idle" /\ output[g].engine # "running"
    /\ connected
    /\ ConnectionFree(InFlight)
    /\ \E via \in {"kquery", "query"} :
          output' = [output EXCEPT ![g] =
                        [NotCalling EXCEPT !.pc = "wait", !.engine = "running",
                                           !.via = via]]
    /\ UNCHANGED <<otherVars, input>>

\* the goroutine: result, err = k.connection.Query(query); close(done)
ParallelEngineReturn(g) ==
    /\ input.kind = "parallel"
    /\ output[g].engine = "running"
    /\ output' = [output EXCEPT ![g].engine = "done"]
    /\ UNCHANGED <<otherVars, input>>

\* select: case <-done
ParallelWaitDone(g) ==
    /\ input.kind = "parallel"
    /\ output[g].pc = "wait" /\ output[g].engine = "done"
    /\ output' = [output EXCEPT ![g].pc = "idle"]
    /\ UNCHANGED <<otherVars, input>>

\* the context of the call is cancelled
ParallelCancel(g) ==
    /\ input.kind = "parallel"
    /\ output[g].pc = "wait" /\ ~output[g].cancelled
    /\ output' = [output EXCEPT ![g].cancelled = TRUE]
    /\ UNCHANGED <<otherVars, input>>

\* select: case <-ctx.Done(): k.connection.Interrupt(); return nil, ctx.Err()
ParallelWaitCancelled(g) ==
    /\ input.kind = "parallel"
    /\ output[g].pc = "wait" /\ output[g].cancelled
    /\ output' = [output EXCEPT ![g].pc = "idle", ![g].interrupted = TRUE]
    /\ UNCHANGED <<otherVars, input>>

ParallelInit ==
    /\ TxInit /\ ImportInit /\ SchemaInit
    /\ input = [kind |-> "parallel", list |-> <<>>]
    /\ output = [g \in Goroutines |-> NotCalling]

ParallelNext ==
    \E g \in Goroutines :
        \/ ParallelCall(g)
        \/ ParallelEngineReturn(g)
        \/ ParallelWaitDone(g)
        \/ ParallelCancel(g)
        \/ ParallelWaitCancelled(g)

ParallelSpec == ParallelInit /\ [][ParallelNext]_vars

\* C31: at no time are two engine calls in flight on the connection of the
\* store.
C31_Original ==
    input.kind = "parallel" => Cardinality(InFlight) <= 1

\* C31: goroutine 1 waits in a plain Query and goroutine 2 in the Query of
\* its transaction handle, and the engine call of each is running
C31_TwoInFlight ==
    /\ input.kind = "parallel"
    /\ output[1].pc = "wait" /\ output[1].via = "kquery" /\ output[1].engine = "running"
    /\ output[2].pc = "wait" /\ output[2].via = "query" /\ output[2].engine = "running"

(***************************************************************************)
(* The write strategy of a document.  A document of input.nodes Person     *)
(* nodes without properties and input.rels KNOWS relationships from the    *)
(* first node to itself is imported into a fresh store, outside or inside  *)
(* a transaction; output.once holds the data statements the import sent.   *)
(* The statement of the individual path sets the properties of its one     *)
(* row; the statement of the batched path carries the rows of a whole      *)
(* group and, for rows without properties, sets none.                      *)
(***************************************************************************)
\* how far above the threshold the drawn counts go
MaxOver == 1

SizedDoc(n, r) ==
    [nodes |-> [i \in 1..n |-> PersonNode("n" \o ToString(i), {})],
     rels |-> [i \in 1..r |-> KnowsRel("n1", "n1", {})],
     content |-> ""]

\* AddGraphDocument(ctx, [doc]) or, on a handle just begun,
\* AddGraphDocumentsWithTransaction(tx, [doc])
WriteSized ==
    /\ input.kind = "strategy" /\ output.stage = 0
    /\ LET doc == SizedDoc(input.nodes, input.rels)
           fin == IF input.inTx
                  THEN RunPlan(addGraphDocumentsInTransaction(<<doc>>),
                               FreshStore(TRUE), "tx", 0)
                  ELSE RunPlan(AddGraphDocumentPlan(<<doc>>, FALSE),
                               FreshStore(FALSE), "conn", 0)
       IN output' = [output EXCEPT !.stage = IF fin.err THEN 2 ELSE 1,
                                   !.once = DataStatements(fin.h.log)]
    /\ UNCHANGED <<otherVars, input>>

StrategyInit ==
    /\ TxInit /\ ImportInit /\ SchemaInit
    /\ input \in {[kind |-> "strategy", list |-> <<>>, nodes |-> n, rels |-> r,
                   inTx |-> t] :
                     n \in 1..(BatchThreshold + MaxOver),
                     r \in 0..(BatchThreshold + MaxOver), t \in BOOLEAN}
    /\ output = NoOutput

StrategyNext == WriteSized

StrategySpec == StrategyInit /\ [][StrategyNext]_vars

\* one statement per node and then one per relationship, each with one row
\* whose properties it sets
WrittenIndividually(stmts, n, r) ==
    /\ Len(stmts) = n + r
    /\ \A i \in 1..Len(stmts) :
          /\ stmts[i].kind = (IF i <= n THEN "merge_node" ELSE "merge_rel")
          /\ Len(stmts[i].rows) = 1 /\ stmts[i].setProps

\* one statement with all the nodes and, if there are relationships, one
\* with all of them
WrittenBatched(stmts, n, r) ==
    /\ Len(stmts) = 1 + (IF r > 0 THEN 1 ELSE 0)
    /\ stmts[1].kind = "merge_node" /\ Len(stmts[1].rows) = n /\ ~stmts[1].setProps
    /\ r > 0 => stmts[2].kind = "merge_rel" /\ Len(stmts[2].rows) = r
                /\ ~stmts[2].setProps

\* C32: a document is written through the batched path exactly when it has
\* more than 10 nodes or more than 10 relationships, and through the
\* individual path otherwise, 10 of each included; inside a transaction as
\* outside.
C32_ThresholdStrategy ==
    input.kind = "strategy" /\ output.stage = 1 =>
        IF input.nodes > 10 \/ input.rels > 10
        THEN WrittenBatched(output.once, input.nodes, input.rels)
        ELSE WrittenIndividually(output.once, input.nodes, input.rels)

\* C32: a document of exactly 10 nodes and 10 relationships was written
\* inside a transaction by 20 statements of one row each
C32_Witness ==
    /\ input.kind = "strategy" /\ input.inTx
    /\ input.nodes = 10 /\ input.rels = 10
    /\ output.stage = 1
    /\ WrittenIndividually(output.once, 10, 10)

(***************************************************************************)
(* The calls of the batched path.  A document over the threshold is        *)
(* imported into a fresh store, outside or inside a transaction;           *)
(* output.once holds the data statements sent.  The documents have nodes   *)
(* of the types A, A_B, D and Person and a list of relationships drawn     *)
(* from a pool with the triples (A, B_C, D), (A_B, C, D) and               *)
(* (Person, KNOWS, Person); one document has more nodes than a chunk.      *)
(***************************************************************************)
\* longest list of relationships of a drawn document
MaxBatchRels == 3

LabelA == <<"A">>
LabelAB == <<"A", "_", "B">>
LabelBC == <<"B", "_", "C">>
LabelC == <<"C">>
LabelD == <<"D">>

TypedNode(id, type) == [id |-> id, type |-> type, props |-> {}]

BatchNodes ==
    <<TypedNode("a", LabelA), TypedNode("ab", LabelAB), TypedNode("d", LabelD)>>
    \o [i \in 1..(BatchThreshold - 2) |-> PersonNode("p" \o ToString(i), {})]

BatchRelPool ==
    {Rel("a", LabelA, LabelBC, "d", LabelD),
     Rel("ab", LabelAB, LabelC, "d", LabelD),
     Rel("p1", Person, Knows, "p2", Person),
     Rel("p2", Person, Knows, "p1", Person)}

\* more Person nodes than one chunk holds
DocOverChunk ==
    [nodes |-> [i \in 1..(ChunkSize + 1) |-> PersonNode("n" \o ToString(i), {})],
     rels |-> <<>>, content |-> ""]

BatchDocs ==
    {[nodes |-> BatchNodes, rels |-> rels, content |-> ""] :
        rels \in ListsOver(BatchRelPool, MaxBatchRels)}
    \cup {DocOverChunk}

\* AddGraphDocument(ctx, [doc]) or, on a handle just begun,
\* AddGraphDocumentsWithTransaction(tx, [doc])
WriteBatch ==
    /\ input.kind = "batch" /\ output.stage = 0
    /\ LET doc == input.list[1]
           fin == IF input.inTx
                  THEN RunPlan(addGraphDocumentsInTransaction(<<doc>>),
                               FreshStore(TRUE), "tx", 0)
                  ELSE RunPlan(AddGraphDocumentPlan(<<doc>>, FALSE),
                               FreshStore(FALSE), "conn", 0)
       IN output' = [output EXCEPT !.stage = IF fin.err THEN 2 ELSE 1,
                                   !.once = DataStatements(fin.h.log)]
    /\ UNCHANGED <<otherVars, input>>

BatchInit ==
    /\ TxInit /\ ImportInit /\ SchemaInit
    /\ input \in {[kind |-> "batch", list |-> <<doc>>, inTx |-> t] :
                     doc \in BatchDocs, t \in BOOLEAN}
    /\ output = NoOutput

BatchNext == WriteBatch

BatchSpec == BatchInit /\ [][BatchNext]_vars

\* what a call carries: the table and the ids of its nodes in order, or the
\* pattern and the endpoint ids of its relationships in order
CallOfNodes(table, nodes) ==
    [kind |-> "merge_node", table |-> table,
     ids |-> [i \in 1..Len(nodes) |-> nodes[i].id]]
CallOfRels(name, from, to, rels) ==
    [kind |-> "merge_rel", name |-> name, from |-> from, to |-> to,
     ids |-> [i \in 1..Len(rels) |-> <<rels[i].source.id, rels[i].target.id>>]]

\* the call a statement is
CallSent(stmt) ==
    IF stmt.kind = "merge_node"
    THEN [kind |-> "merge_node", table |-> stmt.table,
          ids |-> [i \in 1..Len(stmt.rows) |-> stmt.rows[i].id]]
    ELSE [kind |-> "merge_rel", name |-> stmt.name, from |-> stmt.from, to |-> stmt.to,
          ids |-> [i \in 1..Len(stmt.rows) |->
                     <<stmt.rows[i].source_id, stmt.rows[i].target_id>>]]

Triple(rel) == <<rel.source.type, rel.type, rel.target.type>>

\* the calls C33 describes: for each node type and each triple, its
\* entities in input order, cut into chunks of at most 100
GroupedCalls(doc) ==
    UNION {{CallOfNodes(sanitizeIdentifier(t), c) :
               c \in {Chunks(SelectSeq(doc.nodes, LAMBDA n : n.type = t), ChunkSize)[i] :
                         i \in 1..Len(Chunks(SelectSeq(doc.nodes, LAMBDA n : n.type = t),
                                             ChunkSize))}} :
              t \in {doc.nodes[i].type : i \in 1..Len(doc.nodes)}}
    \cup
    UNION {{CallOfRels(sanitizeIdentifier(t[2]), sanitizeIdentifier(t[1]),
                       sanitizeIdentifier(t[3]), c) :
               c \in {Chunks(SelectSeq(doc.rels, LAMBDA r : Triple(r) = t), ChunkSize)[i] :
                         i \in 1..Len(Chunks(SelectSeq(doc.rels, LAMBDA r : Triple(r) = t),
                                             ChunkSize))}} :
              t \in {Triple(doc.rels[i]) : i \in 1..Len(doc.rels)}}

\* C33: the calls of a successful batched import are, for each node type
\* and each (sourceType, relType, targetType) triple, the entities of the
\* group in input order in chunks of at most 100: every call carries one
\* group, and every node and relationship is sent in exactly one call.
C33_Original ==
    input.kind = "batch" /\ output.stage = 1 =>
        /\ {CallSent(output.once[i]) : i \in 1..Len(output.once)}
              = GroupedCalls(input.list[1])
        /\ Len(output.once) = Cardinality(GroupedCalls(input.list[1]))
        /\ \A i \in 1..Len(output.once) : Len(output.once[i].rows) <= ChunkSize

\* C33: a successful import has sent the relationships of the triples
\* (A, B_C, D) and (A_B, C, D) in one call, under the pattern of the first
C33_TwoTriplesOneCall ==
    /\ input.kind = "batch" /\ output.stage = 1
    /\ input.list[1].rels = <<Rel("a", LabelA, LabelBC, "d", LabelD),
                              Rel("ab", LabelAB, LabelC, "d", LabelD),
                              Rel("a", LabelA, LabelBC, "d", LabelD)>>
    /\ \E i \in 1..Len(output.once) :
          /\ output.once[i].kind = "merge_rel"
          /\ output.once[i].name = LabelBC
          /\ Len(output.once[i].rows) = 3
          /\ output.once[i].rows[2].source_id = "ab"

(***************************************************************************)
(* String promotion.  A converter with either layout as its DateFormat and *)
(* as its TimestampFormat, strict or permissive, converts one string of a  *)
(* pool: plain strings, a date, timestamps, JSON texts of an object and of *)
(* arrays, a JSON text followed by a line feed, and a bracketed string     *)
(* that is not JSON.                                                       *)
(***************************************************************************)
TypeConverters ==
    [StrictMode : BOOLEAN, DateFormat : {DateOnly, RFC3339},
     TimestampFormat : {DateOnly, RFC3339}]

StringPool ==
    {"", "test", "{bad}"} \cup DateStrings \cup TimestampStrings \cup DOMAIN JsonDecoded

\* tc.ConvertGoValueToKuzu(s) of a string s
PromoteString ==
    /\ input.kind = "string" /\ output.stage = 0
    /\ output' = [output EXCEPT !.stage = 1,
                     !.once = ConvertGoValueToKuzu(input.tc, Go("string", input.value))]
    /\ UNCHANGED <<otherVars, input>>

StringInit ==
    /\ TxInit /\ ImportInit /\ SchemaInit
    /\ input \in {[kind |-> "string", list |-> <<>>, tc |-> tc, value |-> s] :
                     tc \in TypeConverters, s \in StringPool}
    /\ output = NoOutput

StringNext == PromoteString

StringSpec == StringInit /\ [][StringNext]_vars

\* the result the precedence gives a string, isJson telling the JSON texts
Promoted(tc, s, isJson) ==
    IF Parses(tc.DateFormat, s) THEN output.once.type = "DATE" /\ ~output.once.err
    ELSE IF Parses(tc.TimestampFormat, s)
    THEN output.once.type = "TIMESTAMP" /\ ~output.once.err
    ELSE IF isJson
    THEN /\ output.once = ConvertGoValueToKuzu(tc, JsonDecoded[s])
         /\ ~output.once.err =>
               output.once.type = IF JsonDecoded[s].t = "map" THEN "STRUCT" ELSE "LIST"
    ELSE output.once = Converted(Go("string", s), "STRING")

\* C34 as stated: a string is promoted by the precedence date, timestamp,
\* JSON object or array (every text json.Unmarshal decodes), plain string;
\* and no conversion of a string fails in permissive mode.
C34_Original ==
    input.kind = "string" /\ output.stage = 1 =>
        /\ Promoted(input.tc, input.value, input.value \in DOMAIN JsonDecoded)
        /\ ~input.tc.StrictMode => ~output.once.err

\* C34: a string is promoted by the precedence date, timestamp, JSON object
\* or array, plain string, where only a text whose first and last characters
\* are the brackets counts as JSON: a JSON text with white space around it
\* stays a plain string.  No conversion of a string fails in permissive mode.
C34_BracketedJson ==
    input.kind = "string" /\ output.stage = 1 =>
        /\ Promoted(input.tc, input.value,
                    isJSONString(input.value) /\ input.value \in DOMAIN JsonDecoded)
        /\ ~input.tc.StrictMode => ~output.once.err

\* C34: under a converter whose two layouts are both RFC3339 a timestamp
\* string became a DATE
C34_Witness ==
    /\ input.kind = "string" /\ output.stage = 1
    /\ input.tc.DateFormat = RFC3339 /\ input.tc.TimestampFormat = RFC3339
    /\ input.value = "2024-01-15T10:00:00+00:00"
    /\ output.once = Converted(Go("string", "2024-01-15T10:00:00Z"), "DATE")

\* C34: the JSON array followed by a line feed stayed a plain string
C34_PaddedJsonKept ==
    /\ input.kind = "string" /\ output.stage = 1
    /\ input.value = "[1,\"x\"]\n" /\ ~input.tc.StrictMode
    /\ output.once.type = "STRING"

(***************************************************************************)
(* Sequences.  A default converter, strict or permissive, converts a       *)
(* []interface{} of up to MaxSliceLen elements drawn from: int 1 and       *)
(* int64 1 (both INT64), a plain string and nil (both STRING), a date      *)
(* string (DATE) and a nested sequence of mixed types.                     *)
(***************************************************************************)
\* longest sequence drawn
MaxSliceLen == 3

SliceElements ==
    {Go("int", 1), Go("int64", 1), Go("string", "test"), Go("string", "2024-01-15"),
     GoNil, Go("slice", <<Go("int", 1), Go("string", "test")>>)}

\* tc.ConvertGoValueToKuzu(slice) of a []interface{}
ConvertSequence ==
    /\ input.kind = "slice" /\ output.stage = 0
    /\ output' = [output EXCEPT !.stage = 1,
                     !.once = ConvertGoValueToKuzu(input.tc, Go("slice", input.list))]
    /\ UNCHANGED <<otherVars, input>>

SliceInit ==
    /\ TxInit /\ ImportInit /\ SchemaInit
    /\ input \in {[kind |-> "slice", list |-> l,
                   tc |-> [NewTypeConverter EXCEPT !.StrictMode = strict]] :
                     l \in ListsOver(SliceElements, MaxSliceLen), strict \in BOOLEAN}
    /\ output = NoOutput

SliceNext == ConvertSequence

SliceSpec == SliceInit /\ [][SliceNext]_vars

\* the conversion of the i-th element on its own
ElementConverted(i) == ConvertGoValueToKuzu(input.tc, input.list[i])

\* C35: in strict mode the conversion of a sequence fails exactly when an
\* element fails to convert or two elements convert to different engine
\* types; in permissive mode it never fails, and a conversion that succeeds
\* gives a LIST of the converted elements in the order of the sequence.
C35_StrictIffMixed ==
    input.kind = "slice" /\ output.stage = 1 =>
        LET idx == 1..Len(input.list)
            fails == \E i \in idx : ElementConverted(i).err
            mixed == \E i, j \in idx : ElementConverted(i).type # ElementConverted(j).type
        IN /\ input.tc.StrictMode => (output.once.err <=> (fails \/ mixed))
           /\ ~input.tc.StrictMode => ~output.once.err
           /\ ~output.once.err =>
                 output.once = Converted(Go("slice", [i \in idx |-> ElementConverted(i).value]),
                                         "LIST")

\* C35: in strict mode the sequence of a plain string and a date string was
\* refused: both are Go strings, of the engine types STRING and DATE
C35_Witness ==
    /\ input.kind = "slice" /\ output.stage = 1 /\ input.tc.StrictMode
    /\ input.list = <<Go("string", "test"), Go("string", "2024-01-15")>>
    /\ output.once.err

(***************************************************************************)
(* The creation cache across Close and Reconnect.  A store over a database *)
(* in memory or on disk imports documents with AddGraphDocument, is        *)
(* closed, reconnected, and queried with QueryWithRetry, in any order.     *)
(***************************************************************************)
ReopenInputs == {<<DocAliceBob>>, <<DocTwoTypes>>}

\* Kuzu.AddGraphDocument on the store as it is
ReopenImport ==
    /\ input.kind = "reopen"
    /\ \E docs \in ReopenInputs :
         \E fin \in {IF ~connected
                     THEN [Store(NoHandle) EXCEPT !.err = TRUE, !.cause = "connection"]
                     ELSE RunPlan(AddGraphDocumentPlan(docs, FALSE),
                                  Store(NoHandle), "conn", 0)} :
             Stored(fin, CallRecord("AddGraphDocument", docs, FALSE, fin, TransactionIdle))
    /\ UNCHANGED <<connected, ctxCancelled, txState, operations, rit, fnRet, ritResult>>

\* Kuzu.Reconnect, called by the user of the store
KuzuReconnect ==
    /\ input.kind = "reopen"
    /\ \E ok \in BOOLEAN : Reconnect(ok)
    /\ last' = Call("Reconnect", ~connected')
    /\ UNCHANGED <<ctxCancelled, engineLog, retryRest, output>>

ReopenInit ==
    /\ TxInit /\ ImportInit /\ SchemaInit
    /\ input \in {[kind |-> "reopen", list |-> <<>>,
                   maxRetries |-> n, rejects |-> b, inMemory |-> m] :
                     n \in 0..MaxRetries, b \in BOOLEAN, m \in BOOLEAN}
    /\ output = RetryIdle

ReopenNext ==
    \/ ReopenImport
    \/ KuzuClose
    \/ KuzuReconnect
    \/ RetryCall
    \/ RetryQuery
    \/ RetryReconnect
    \/ RetryWait

ReopenSpec == ReopenInit /\ [][ReopenNext]_vars

\* the relationship tables the documents ask for
ReopenRelItems ==
    {RelTableItem(docs[i].rels[j].type, docs[i].rels[j].source.type,
                  docs[i].rels[j].target.type) :
        <<docs, i, j>> \in {<<ds, a, b>> \in ReopenInputs \X (1..1) \X (1..2) :
                               b <= Len(ds[a].rels)}}
    \cup {MentionsTableItem}

\* the connected database has the table a cache entry stands for
TableOfNodeKey(key) == sanitizeIdentifier(key) \in engine.ntabs
TableOfRelKey(key) ==
    \E item \in ReopenRelItems :
        item.key = key /\ \E t \in engine.rtabs : t.name = item.stmt.name

\* C36: whenever the store is connected, every node table and every
\* relationship table of the creation cache exists in the connected
\* database.
C36_Original ==
    input.kind = "reopen" /\ connected =>
        /\ \A key \in nodeTables : TableOfNodeKey(key)
        /\ \A key \in relTables : TableOfRelKey(key)

\* C36: a store in memory was reconnected after an import; the cache still
\* holds Person, the new database has no table, table creation was skipped
\* and the import that followed failed at its first write
C36_StaleCache ==
    /\ input.kind = "reopen" /\ input.inMemory /\ connected
    /\ Person \in nodeTables /\ engine.ntabs = {}
    /\ call.again /\ call.prevOk /\ call.err /\ call.cause = "write"
    /\ engineLog[Len(engineLog)].stmt.kind = "merge_node"

(***************************************************************************)
(* The order of the writes of one document.  A document is imported into a *)
(* fresh store, outside or inside a transaction, and the engine refuses    *)
(* the statement numbered failAt, if there is one.  The documents are      *)
(* small ones, written one row at a time, and the documents of the batched *)
(* path.  output.once holds the statements issued, the result and the      *)
(* database.                                                               *)
(***************************************************************************)
\* largest number of a refused statement
MaxOrderFail == 14

OrderDocs ==
    {DocAliceBob, DocTwoTypes, DocDangling}
    \cup {[nodes |-> BatchNodes, rels |-> rels, content |-> ""] :
             rels \in ListsOver(BatchRelPool, MaxBatchRels)}

\* AddGraphDocument(ctx, [doc]) or, on a handle just begun,
\* AddGraphDocumentsWithTransaction(tx, [doc])
WriteOrdered ==
    /\ input.kind = "order" /\ output.stage = 0
    /\ LET doc == input.list[1]
           fin == IF input.inTx
                  THEN RunPlan(addGraphDocumentsInTransaction(<<doc>>),
                               FreshStore(TRUE), "tx", input.failAt)
                  ELSE RunPlan(AddGraphDocumentPlan(<<doc>>, input.includeSource),
                               FreshStore(FALSE), "conn", input.failAt)
       IN output' = [output EXCEPT !.stage = 1,
                        !.once = [err |-> fin.err, cause |-> fin.cause, n |-> fin.n,
                                  eng |-> fin.eng,
                                  log |-> SelectSeq(fin.h.log,
                                             LAMBDA e : IsTableCreation(e) \/ IsDataWrite(e))]]
    /\ UNCHANGED <<otherVars, input>>

OrderInit ==
    /\ TxInit /\ ImportInit /\ SchemaInit
    /\ input \in {[kind |-> "order", list |-> <<doc>>, inTx |-> t,
                   includeSource |-> src, failAt |-> f] :
                     doc \in OrderDocs, t \in BOOLEAN, src \in BOOLEAN,
                     f \in 0..MaxOrderFail}
    /\ output = NoOutput

OrderNext == WriteOrdered

OrderSpec == OrderInit /\ [][OrderNext]_vars

\* a write of nodes, a write of relationships
IsNodeWrite(e) == IsDataWrite(e) /\ e.stmt.kind = "merge_node"
IsRelWrite(e) == IsDataWrite(e) /\ e.stmt.kind \in {"merge_rel", "merge_mentions"}

\* every node write comes before the first relationship write
NodesBeforeRels(log) ==
    \A i, j \in 1..Len(log) : IsRelWrite(log[i]) /\ IsNodeWrite(log[j]) => j < i

\* both endpoints of rel are nodes of doc
EndpointsInDocument(doc, rel) ==
    /\ \E i \in 1..Len(doc.nodes) :
          doc.nodes[i].id = rel.source.id /\ doc.nodes[i].type = rel.source.type
    /\ \E i \in 1..Len(doc.nodes) :
          doc.nodes[i].id = rel.target.id /\ doc.nodes[i].type = rel.target.type

\* the database has the edge rel stands for
EdgeWritten(eng, rel) ==
    \E e \in eng.edges :
        /\ e.rel = sanitizeIdentifier(rel.type)
        /\ e.from = sanitizeIdentifier(rel.source.type) /\ e.source_id = rel.source.id
        /\ e.to = sanitizeIdentifier(rel.target.type) /\ e.target_id = rel.target.id

\* the refused write is the last statement issued
AbortsAtFirstFailure ==
    LET f == input.failAt
    IN f >= 1 /\ f <= Len(output.once.log) /\ IsDataWrite(output.once.log[f]) =>
          output.once.err /\ Len(output.once.log) = f

\* C37: in each path, inside and outside a transaction, every node write of
\* a document is issued before its first relationship write; after a
\* successful import every relationship whose endpoints are both nodes of
\* the document is an edge of the database; and a refused write is the last
\* statement issued for the document.
C37_Original ==
    input.kind = "order" /\ output.stage = 1 =>
        LET doc == input.list[1] IN
        /\ NodesBeforeRels(output.once.log)
        /\ ~output.once.err =>
              \A j \in 1..Len(doc.rels) :
                  EndpointsInDocument(doc, doc.rels[j]) => EdgeWritten(output.once.eng, doc.rels[j])
        /\ AbortsAtFirstFailure

\* C37: the batched import of a (A) -[B_C]-> d, ab (A_B) -[C]-> d,
\* a -[B_C]-> d returned nil, all nodes were written before the one
\* relationship statement, and the database has no edge from ab
C37_EndpointNotFound ==
    /\ input.kind = "order" /\ output.stage = 1 /\ ~output.once.err
    /\ input.list[1].rels = <<Rel("a", LabelA, LabelBC, "d", LabelD),
                              Rel("ab", LabelAB, LabelC, "d", LabelD),
                              Rel("a", LabelA, LabelBC, "d", LabelD)>>
    /\ \E n \in output.once.eng.nodes : n.id = "ab" /\ n.table = sanitizeIdentifier(LabelAB)
    /\ \E n \in output.once.eng.nodes : n.id = "d" /\ n.table = sanitizeIdentifier(LabelD)
    /\ ~\E e \in output.once.eng.edges : e.source_id = "ab"

\* the handle of the import call was Committed, RolledBack or Failed when
\* the call began.  An import call leaves a handle Active or makes it
\* Failed, and it makes it Failed only by a write the engine refused
StartedInactive ==
    /\ call.api = "AddGraphDocumentsWithTransaction"
    /\ \/ call.tx \in {TransactionCommitted, TransactionRolledBack}
       \/ call.tx = TransactionFailed /\ call.cause # "write"

\* C38: AddGraphDocumentsWithTransaction on a handle that is not Active,
\* with a list of documents that is not empty, returns an error and sends
\* nothing to the engine: the database and the creation cache are as they
\* were.
C38_Original ==
    StartedInactive /\ call.docs # <<>> =>
        /\ call.err /\ call.sent = 0
        /\ engine = before
        /\ nodeTables = call.cache.node /\ relTables = call.cache.rel

\* C38: alice -[KNOWS]-> bob imported through a committed handle: the call
\* returned the handle's error after the tables were created and cached
C38_TablesCreated ==
    /\ StartedInactive /\ ~call.again /\ call.tx = TransactionCommitted
    /\ call.docs = <<DocAliceBob>>
    /\ call.err /\ call.cause = "handle" /\ call.sent > 0
    /\ call.cache.node = {} /\ Person \in nodeTables
    /\ sanitizeIdentifier(Person) \in engine.ntabs /\ engine.nodes = {}

(***************************************************************************)
(* Relationship keys.  Two triples (sourceType, relType, targetType) are   *)
(* drawn; a fresh store creates the node tables and then calls             *)
(* createRelationshipTable for the first and for the second triple.        *)
(* output.once holds the cache key and the grouping key of each triple and *)
(* the CREATE REL TABLE statements that reached the engine.                *)
(***************************************************************************)
KeyTriples == {LabelA, LabelAB} \X {LabelBC, LabelC, Knows} \X {LabelD, Person}

\* a relationship of the triple t = <<sourceType, relType, targetType>>
RelOfTriple(t) == Rel("s", t[1], t[2], "t", t[3])

\* createNodeTable for the four node types, then createRelationshipTable
\* for each triple
CreateBoth ==
    /\ input.kind = "keys" /\ output.stage = 0
    /\ LET t1 == input.list[1]
           t2 == input.list[2]
           plan == <<NodeTableItem(LabelA), NodeTableItem(LabelAB),
                     NodeTableItem(LabelD), NodeTableItem(Person),
                     RelTableItem(t1[2], t1[1], t1[3]),
                     RelTableItem(t2[2], t2[1], t2[3])>>
           fin == RunPlan(plan, FreshStore(FALSE), "conn", 0)
           sent == SelectSeq(fin.h.log, LAMBDA e : e.stmt.kind = "create_rel_table")
       IN output' = [output EXCEPT !.stage = 1,
                        !.once = [cacheKeys |-> <<RelTableItem(t1[2], t1[1], t1[3]).key,
                                                  RelTableItem(t2[2], t2[1], t2[3]).key>>,
                                  groupKeys |-> <<RelKey(RelOfTriple(t1)),
                                                  RelKey(RelOfTriple(t2))>>,
                                  created |-> [i \in 1..Len(sent) |-> sent[i].stmt]]]
    /\ UNCHANGED <<otherVars, input>>

KeyInit ==
    /\ TxInit /\ ImportInit /\ SchemaInit
    /\ input \in {[kind |-> "keys", list |-> <<t1, t2>>] : t1, t2 \in KeyTriples}
    /\ output = NoOutput

KeyNext == CreateBoth

KeySpec == KeyInit /\ [][KeyNext]_vars

\* C39: two different triples have different cache keys and different
\* grouping keys, and the table of the second is not taken as created
\* because of the first: both CREATE REL TABLE statements are sent.
C39_Original ==
    input.kind = "keys" /\ output.stage = 1 /\ input.list[1] # input.list[2] =>
        /\ output.once.cacheKeys[1] # output.once.cacheKeys[2]
        /\ output.once.groupKeys[1] # output.once.groupKeys[2]
        /\ Len(output.once.created) = 2

\* C39: (A, B_C, D) and (A_B, C, D) have the one key A_B_C_D, and only the
\* table B_C was created
C39_SameKey ==
    /\ input.kind = "keys" /\ output.stage = 1
    /\ input.list = <<<<LabelA, LabelBC, LabelD>>, <<LabelAB, LabelC, LabelD>>>>
    /\ output.once.cacheKeys[1] = output.once.cacheKeys[2]
    /\ output.once.groupKeys[1] = output.once.groupKeys[2]
    /\ Len(output.once.created) = 1 /\ output.once.created[1].name = LabelBC

\* C40: DeduplicateNodes keeps every node whose pair (type, id) has not
\* occurred earlier in its argument; two nodes with one id and two types are
\* both kept.
C40_Original ==
    input.kind = "nodes" /\ output.stage >= 1 =>
        \A i \in 1..Len(input.list) :
            (\A j \in 1..(i - 1) :
                <<input.list[j].type, input.list[j].id>>
                    # <<input.list[i].type, input.list[i].id>>)
            => \E k \in 1..Len(output.once) : output.once[k] = input.list[i]

\* C40: of the Person "1" and the Company "1" the Person alone was returned
C40_CompanyDropped ==
    /\ input.kind = "nodes" /\ output.stage = 1
    /\ input.list = <<[id |-> "1", type |-> Person, props |-> {}],
                      [id |-> "1", type |-> Company, props |-> {}]>>
    /\ output.once = <<[id |-> "1", type |-> Person, props |-> {}]>>

====
